---- MODULE Spec2Model ----
(***************************************************************************)
(* Retrieval-and-synthesis pipeline of the RAGOPS backend:                 *)
(*   services/embeddings.py      generate_embeddings, _request_embeddings  *)
(*   services/search_service.py  search_chunks                             *)
(*   services/rag_service.py     _select_chunks, rag_search                *)
(*   services/llm_service.py     generate_rag_answer                       *)
(*   utils/cache.py, utils/hashing.py                                      *)
(* External collaborators (Redis, Meilisearch, the embedding and the       *)
(* completion provider) are modelled by their status and their answers.    *)
(***************************************************************************)
EXTENDS Integers, Sequences, FiniteSets, TLC

VARIABLES
    cache,      \* Redis: key -> [val, ttl], ttl = seconds left to live
    embUp,      \* the embedding provider answers 200 with one vector per input
    storeUp,    \* Meilisearch is reachable
    cacheUp,    \* Redis is reachable
    index,      \* the chunk records currently in the "chunks" index
    procs,      \* one record per request slot: position, arguments, locals, outcome
    ncalls,     \* requests started so far
    nticks,     \* clock ticks so far
    lastFresh,  \* history: rag key -> last payload a rag_search computed, and its age
    lastFetch,  \* history: text -> age of the last returned provider vector
    selHits,    \* input of _select_chunks
    selK,       \* input of _select_chunks
    selOut,     \* output of _select_chunks
    selPc,      \* "ready" | "done"
    docIndex,   \* the document records currently in the documents index
    ckText,     \* chunk_text: text, a sequence of characters
    ckSize,     \* chunk_text: chunk_size
    ckOverlap,  \* chunk_text: overlap
    ckStart,    \* chunk_text: start
    ckChunks,   \* chunk_text: chunks
    ckSpans,    \* history: the [start, end) of every window sliced so far
    ckSeen,     \* history: the values start had at the top of the loop
    ckPc        \* "off" | "entry" | "loop" | "done"

vars == <<cache, embUp, storeUp, cacheUp, index, procs, ncalls, nticks,
          lastFresh, lastFetch, selHits, selK, selOut, selPc, docIndex,
          ckText, ckSize, ckOverlap, ckStart, ckChunks, ckSpans, ckSeen, ckPc>>

pipeVars == <<cache, embUp, storeUp, cacheUp, index, procs, ncalls, nticks,
              lastFresh, lastFetch, docIndex>>
selVars == <<selHits, selK, selOut, selPc>>
chunkVars == <<ckText, ckSize, ckOverlap, ckStart, ckChunks, ckSpans, ckSeen, ckPc>>

----------------------------------------------------------------------------
(* Bounds of the model *)

MaxHits == 4        \* longest hit list given to _select_chunks on its own
MaxK == 3           \* largest k of a request
MaxCalls == 2       \* requests started in one behaviour
MaxTicks == 1       \* clock ticks in one behaviour
TickSeconds == 300  \* seconds per clock tick
MaxTextLen == 4     \* longest text given to chunk_text with small parameters
MaxSize == 3        \* largest small chunk_size
MaxOverlap == 3     \* largest small overlap
MaxIter == 12       \* iterations of the chunk_text loop that are unfolded
ScenarioLen == 1200 \* length of the long document texts

(* Program constants *)

_CACHE_TTL == 3600  \* embeddings.py: TTL of an embedding cache entry
RAG_TTL == 600      \* rag_service.py: TTL of a rag answer cache entry
PER_DOC == 2        \* rag_service.py: chunks kept per document_id
DISPLAY_MAX == 300  \* rag_service.py: characters of content shown per chunk
OVERFETCH == 2      \* rag_service.py: limit = k * 2

None == [tag |-> "None"]

Min(a, b) == IF a < b THEN a ELSE b

Range(s) == {s[i] : i \in 1..Len(s)}

----------------------------------------------------------------------------
(* The chunk records the store can hold, as ingest_documents builds them   *)
(* (text and content hold the same string, document_id is always set): a   *)
(* document of three chunks, a document of one long chunk, and the single  *)
(* chunk of a document whose text is empty.  A string is its name and its  *)
(* length; ell tells that an ellipsis was appended.                        *)

Str(name, len) == [name |-> name, len |-> len, ell |-> FALSE]

Rec(doc, i, str) ==
    [id |-> doc \o "-chunk-" \o ToString(i), document_id |-> doc, chunk_index |-> i,
     text |-> str, content |-> str]

PoolOrder ==
    << Rec("d1", 0, Str("c10", 300)),
       Rec("d1", 1, Str("c11", 301)),
       Rec("d1", 2, Str("c12", 40)),
       Rec("d2", 0, Str("c20", 512)),
       Rec("d3", 0, Str("", 0)) >>

Pool == {PoolOrder[i] : i \in 1..Len(PoolOrder)}

\* sequences of distinct elements of S, of length at most n
RECURSIVE DistinctSeqs(_, _)
DistinctSeqs(S, n) ==
    IF n = 0 THEN {<<>>}
    ELSE LET shorter == DistinctSeqs(S, n - 1)
             longest == {t \in shorter : Len(t) = n - 1}
         IN  shorter \cup UNION {{Append(s, x) : x \in S \ Range(s)} : s \in longest}

----------------------------------------------------------------------------
(* Request inputs *)

Texts == {"a", "b"}          \* texts given to generate_embeddings directly
Queries == {"a", " "}        \* queries of search_chunks; " " is blank after strip()
RagQueries == {"a"}          \* queries of rag_search
KValues == {1, MaxK}

TextLists == {<<>>} \cup {<<t>> : t \in Texts} \cup {<<t, u>> : t \in Texts, u \in Texts}

TickSteps == {TickSeconds, _CACHE_TTL - TickSeconds}

----------------------------------------------------------------------------
(* utils/hashing.py, utils/cache.py *)

\* hashlib.md5(text).hexdigest(): a digest that tells its inputs apart
md5_hash(text) == "md5(" \o text \o ")"

\* json.dumps / json.loads
Dumps(value) == [json |-> value]
Loads(val) == val.json

\* get_json(key) on a reachable Redis: absent key, or JSON null, gives None
get_json(c, key) == IF key \in DOMAIN c THEN Loads(c[key].val) ELSE None

\* a variant in which a write drops every other entry
set_jsonFlush(c, key, value, ttl_seconds) ==
    (key :> [val |-> Dumps(value), ttl |-> ttl_seconds])

\* set_json(key, value, ttl_seconds) on a reachable Redis: SETEX overwrites
set_json(c, key, value, ttl_seconds) ==
    (key :> [val |-> Dumps(value), ttl |-> ttl_seconds]) @@ c

\* Redis after d seconds: every entry is d seconds older, expired entries are gone
Expire(c, d) ==
    LET live == {key \in DOMAIN c : c[key].ttl > d}
    IN  [key \in live |-> [c[key] EXCEPT !.ttl = @ - d]]

----------------------------------------------------------------------------
(* services/embeddings.py *)

EmbKey(t) == "embedding:" \o md5_hash(t)

\* the vector the provider computes for a text
Vec(t) == [tag |-> "vec", of |-> t]

\* the shapes of one item of the provider's "data" list
Shapes == {"embedding", "embedding.default", "default"}

Item(shape, v) ==
    CASE shape = "embedding" -> [tag |-> "dict", key |-> "embedding", val |-> v]
      [] shape = "embedding.default" ->
            [tag |-> "dict", key |-> "embedding",
             val |-> [tag |-> "dict", key |-> "default", val |-> v]]
      [] OTHER -> [tag |-> "dict", key |-> "default", val |-> v]

IsDictWith(x, key) == x.tag = "dict" /\ x.key = key

\* a variant that forgets the nested "default"
UnwrapShallow(emb) == IF IsDictWith(emb, "embedding") THEN emb.val ELSE emb

\* lines 48-50: vec = emb.get("embedding", emb); unwrap a nested "default"
Unwrap(emb) ==
    LET vec == IF IsDictWith(emb, "embedding") THEN emb.val ELSE emb
    IN  IF IsDictWith(vec, "default") THEN vec.val ELSE vec

\* lines 27-38: the cache lookups; results[i] is the cached vector or None
CacheLookups(c, texts) == [i \in 1..Len(texts) |-> get_json(c, EmbKey(texts[i]))]

\* idxs: the positions of the cache misses, in order
RECURSIVE MissIdxs(_, _)
MissIdxs(results, i) ==
    IF i > Len(results) THEN <<>>
    ELSE IF results[i] = None THEN <<i>> \o MissIdxs(results, i + 1)
         ELSE MissIdxs(results, i + 1)

\* uncached: the texts of the cache misses
TextsAt(texts, idxs) == [j \in 1..Len(idxs) |-> texts[idxs[j]]]

\* lines 47-51: results after zip(idxs, data)
FillResults(results, idxs, data) ==
    [i \in 1..Len(results) |->
        IF \E j \in 1..Min(Len(idxs), Len(data)) : idxs[j] = i
        THEN LET j == CHOOSE j \in 1..Min(Len(idxs), Len(data)) : idxs[j] = i
             IN  Unwrap(data[j])
        ELSE results[i]]

\* a variant that stores each item as the provider shaped it
RECURSIVE StoreVectorsRaw(_, _, _, _, _)
StoreVectorsRaw(c, texts, idxs, data, j) ==
    IF j > Min(Len(idxs), Len(data)) THEN c
    ELSE StoreVectorsRaw(set_json(c, EmbKey(texts[idxs[j]]), data[j], _CACHE_TTL),
                         texts, idxs, data, j + 1)

\* a variant that stores each vector for one clock tick only
RECURSIVE StoreVectorsShort(_, _, _, _, _)
StoreVectorsShort(c, texts, idxs, data, j) ==
    IF j > Min(Len(idxs), Len(data)) THEN c
    ELSE StoreVectorsShort(set_json(c, EmbKey(texts[idxs[j]]), Unwrap(data[j]), TickSeconds),
                           texts, idxs, data, j + 1)

\* line 52: the cache after the set_json calls of the loop, from pair j on
RECURSIVE StoreVectors(_, _, _, _, _)
StoreVectors(c, texts, idxs, data, j) ==
    IF j > Min(Len(idxs), Len(data)) THEN c
    ELSE StoreVectors(set_json(c, EmbKey(texts[idxs[j]]), Unwrap(data[j]), _CACHE_TTL),
                      texts, idxs, data, j + 1)

\* a variant that forgets the filter
FlattenKeepNone(results) == results

\* lines 45, 55: [v for v in results if v is not None]
Flatten(results) == SelectSeq(results, LAMBDA v : v # None)

\* outcomes of a call or of a step of it
Returned(value) == [kind |-> "return", value |-> value]
Raised(err) == [kind |-> "raise", err |-> err]

\* _request_embeddings (lines 10-20) answered by the provider: the "data" list of
\* a 200 answer, None for another status, or the exception of httpx (timeout,
\* transport error), which the function does not catch
ProviderAnswers(uncached) ==
    IF embUp
    THEN {[kind |-> "data",
           data |-> [j \in 1..Len(uncached) |-> Item(sh, Vec(uncached[j]))]] : sh \in Shapes}
    ELSE {[kind |-> "none"], [kind |-> "raise"]}

\* generate_embeddings up to its await (lines 27-42): the lookups raise when Redis
\* is unreachable; with no miss the function returns without a request
EmbPhase1(c, texts) ==
    IF texts # <<>> /\ ~cacheUp THEN Raised("cache")
    ELSE LET results == CacheLookups(c, texts)
             idxs == MissIdxs(results, 1)
         IN  IF idxs = <<>> THEN Returned(Flatten(results))
             ELSE [kind |-> "await", results |-> results, idxs |-> idxs]

\* generate_embeddings after its await (lines 43-55), with the cache it leaves
EmbPhase2(c, texts, results, idxs, ans) ==
    CASE ans.kind = "raise" -> [out |-> Raised("embedding"), cache |-> c]
      [] ans.kind = "none" -> [out |-> Returned(Flatten(results)), cache |-> c]
      [] OTHER ->
            IF ~cacheUp /\ Min(Len(idxs), Len(ans.data)) > 0
            THEN [out |-> Raised("cache"), cache |-> c]
            ELSE [out |-> Returned(Flatten(FillResults(results, idxs, ans.data))),
                  cache |-> StoreVectors(c, texts, idxs, ans.data, 1)]

----------------------------------------------------------------------------
(* rag_service._select_chunks *)

\* h.get("document_id", "unknown")
DocIdOf(h) == IF "document_id" \in DOMAIN h THEN h.document_id ELSE "unknown"

\* per_doc.get(doc_id, 0)
PerDocGet(per_doc, d) == IF d \in DOMAIN per_doc THEN per_doc[d] ELSE 0

\* a variant that tests len(selected) > k
RECURSIVE SelectLoopLate(_, _, _, _, _)
SelectLoopLate(hits, k, i, selected, per_doc) ==
    IF i > Len(hits) THEN selected
    ELSE LET h == hits[i]
             d == DocIdOf(h)
             n == PerDocGet(per_doc, d)
             take == n < PER_DOC
             selected2 == IF take THEN Append(selected, h) ELSE selected
             per_doc2 == (d :> (IF take THEN n + 1 ELSE n)) @@ per_doc
         IN  IF Len(selected2) > k THEN selected2
             ELSE SelectLoopLate(hits, k, i + 1, selected2, per_doc2)

\* a variant that never counts what it takes
RECURSIVE SelectLoopNoCount(_, _, _, _, _)
SelectLoopNoCount(hits, k, i, selected, per_doc) ==
    IF i > Len(hits) THEN selected
    ELSE LET selected2 == Append(selected, hits[i])
         IN  IF Len(selected2) >= k THEN selected2
             ELSE SelectLoopNoCount(hits, k, i + 1, selected2, per_doc)

\* a variant that puts a taken hit in front
RECURSIVE SelectLoopFront(_, _, _, _, _)
SelectLoopFront(hits, k, i, selected, per_doc) ==
    IF i > Len(hits) THEN selected
    ELSE LET h == hits[i]
             d == DocIdOf(h)
             n == PerDocGet(per_doc, d)
             take == n < PER_DOC
             selected2 == IF take THEN <<h>> \o selected ELSE selected
             per_doc2 == (d :> (IF take THEN n + 1 ELSE n)) @@ per_doc
         IN  IF Len(selected2) >= k THEN selected2
             ELSE SelectLoopFront(hits, k, i + 1, selected2, per_doc2)

\* the for loop from position i on, with the locals selected and per_doc
RECURSIVE SelectLoop(_, _, _, _, _)
SelectLoop(hits, k, i, selected, per_doc) ==
    IF i > Len(hits) THEN selected
    ELSE LET h == hits[i]
             d == DocIdOf(h)
             n == PerDocGet(per_doc, d)
             take == n < PER_DOC
             selected2 == IF take THEN Append(selected, h) ELSE selected
             per_doc2 == (d :> (IF take THEN n + 1 ELSE n)) @@ per_doc
         IN  IF Len(selected2) >= k THEN selected2
             ELSE SelectLoop(hits, k, i + 1, selected2, per_doc2)

select_chunks(hits, k) == SelectLoop(hits, k, 1, <<>>, <<>>)

----------------------------------------------------------------------------
(* _select_chunks on its own: every hit list the store can answer with      *)
(* (distinct records, at most limit = 2k of them, at least one: rag_search  *)
(* returns earlier on an empty list) and every k a request can carry.       *)

SelInputs ==
    {<<h, k>> \in DistinctSeqs(Pool, MaxHits) \X (1..MaxK) :
        Len(h) >= 1 /\ Len(h) <= OVERFETCH * k}

SelectCall ==
    /\ selPc = "ready"
    /\ selOut' = select_chunks(selHits, selK)
    /\ selPc' = "done"
    /\ UNCHANGED <<selHits, selK>>
    /\ UNCHANGED pipeVars
    /\ UNCHANGED chunkVars

----------------------------------------------------------------------------
(* services/chunking.py.  A text is a sequence of characters; the Python   *)
(* index p is position p + 1 of the sequence.                              *)

CHUNK_SIZE == 512   \* chunking.py: default chunk_size
OVERLAP == 50       \* chunking.py: default overlap
LOOKBACK == 100     \* chunking.py: characters searched for a sentence end

Max(a, b) == IF a > b THEN a ELSE b

\* a text of n characters with sentence ends and blanks at the given indexes
MkText(n, ends, blanks) ==
    [i \in 1..n |-> IF (i - 1) \in ends THEN "."
                    ELSE IF (i - 1) \in blanks THEN " " ELSE "x"]

\* a slice index as Python normalises it: negative counts from the end
Norm(i, n) == IF i < 0 THEN Max(i + n, 0) ELSE Min(i, n)

\* text[a:b]
Slice(text, a, b) == SubSeq(text, Norm(a, Len(text)) + 1, Norm(b, Len(text)))

\* s.rfind(ch)
rfind(s, ch) ==
    LET back == {k \in 1..Len(s) : s[Len(s) + 1 - k] = ch}
    IN  IF back = {} THEN -1 ELSE Len(s) - (CHOOSE k \in back : \A j \in back : k <= j)

\* a variant that keeps the surrounding whitespace
stripNothing(s) == s

\* s.strip()
strip(s) ==
    LET solid == {i \in 1..Len(s) : s[i] # " "}
        back == {k \in 1..Len(s) : s[Len(s) + 1 - k] # " "}
    IN  IF solid = {} THEN <<>>
        ELSE SubSeq(s, CHOOSE i \in solid : \A j \in solid : i <= j,
                       Len(s) + 1 - (CHOOSE k \in back : \A j \in back : k <= j))

\* a variant that cuts at the first sentence end of last_part
sentence_endFirst(last_part) ==
    LET at == {i \in 1..Len(last_part) : last_part[i] \in {".", "!", "?"}}
    IN  IF at = {} THEN -1 ELSE (CHOOSE i \in at : \A j \in at : i <= j) - 1

\* line 14: max(last_part.rfind('.'), last_part.rfind('!'), last_part.rfind('?'))
sentence_end(last_part) ==
    Max(rfind(last_part, "."), Max(rfind(last_part, "!"), rfind(last_part, "?")))

\* a variant that never looks for a sentence end
WindowEndPlain(text, chunk_size, start) == start + chunk_size

\* a variant that cuts every window LOOKBACK characters early
WindowEndShort(text, chunk_size, start) == start + chunk_size - LOOKBACK

\* a variant that cuts at the first sentence end of the whole window
WindowEndFirst(text, chunk_size, start) ==
    LET end == start + chunk_size
        window == Slice(text, start, end)
    IN  IF end < Len(text) /\ sentence_endFirst(window) > -1
        THEN start + sentence_endFirst(window) + 1
        ELSE end

\* lines 11-16: end of the window that starts at start
WindowEnd(text, chunk_size, start) ==
    LET end == start + chunk_size
        from == Max(start, end - LOOKBACK)
        last_part == Slice(text, from, end)
    IN  IF end < Len(text) /\ sentence_end(last_part) > -1
        THEN from + sentence_end(last_part) + 1
        ELSE end

\* a variant that appends the chunk whether or not it is empty
AppendChunkAlways(chunks, chunk) == Append(chunks, chunk)

\* lines 19-20: if chunk: chunks.append(chunk)
AppendChunk(chunks, chunk) == IF chunk # <<>> THEN Append(chunks, chunk) ELSE chunks

\* a variant that starts the next window after a gap
NextStartGap(end, overlap) == end + overlap + 1

\* line 21: start = end - overlap
NextStart(end, overlap) == end - overlap

\* lines 10-23: the loop from the window that starts at start
RECURSIVE ChunkLoop(_, _, _, _, _)
ChunkLoop(text, chunk_size, overlap, start, chunks) ==
    IF ~(start < Len(text)) THEN chunks
    ELSE LET end == WindowEnd(text, chunk_size, start)
             more == AppendChunk(chunks, strip(Slice(text, start, end)))
         IN  IF NextStart(end, overlap) >= Len(text) THEN more
             ELSE ChunkLoop(text, chunk_size, overlap, NextStart(end, overlap), more)

\* a variant that trims a short text too
ShortTextTrimmed(text) == <<strip(text)>>

\* line 7: return [text]
ShortText(text) == <<text>>

\* lines 4-25
chunk_text(text, chunk_size, overlap) ==
    IF Len(text) <= chunk_size THEN ShortText(text)
    ELSE ChunkLoop(text, chunk_size, overlap, 0, <<>>)

\* lines 6-9: the call enters; a short text is returned as it is
ChunkEnter ==
    /\ ckPc = "entry"
    /\ IF Len(ckText) <= ckSize
       THEN /\ ckChunks' = ShortText(ckText)
            /\ ckSpans' = <<[start |-> 0, end |-> Len(ckText)]>>
            /\ ckPc' = "done"
       ELSE /\ ckChunks' = <<>>
            /\ ckSpans' = <<>>
            /\ ckPc' = "loop"
    /\ ckStart' = 0
    /\ UNCHANGED <<ckText, ckSize, ckOverlap, ckSeen>>
    /\ UNCHANGED selVars
    /\ UNCHANGED pipeVars

\* lines 10-23: one iteration of the while loop.  The control of the loop
\* depends on start alone, so an iteration whose start was seen before
\* repeats for ever: the model stops unfolding there, and after MaxIter
\* iterations.
ChunkIterate ==
    /\ ckPc = "loop"
    /\ ckStart \notin ckSeen
    /\ Cardinality(ckSeen) < MaxIter
    /\ LET end == WindowEnd(ckText, ckSize, ckStart)
       IN  /\ ckChunks' = AppendChunk(ckChunks, strip(Slice(ckText, ckStart, end)))
           /\ ckSpans' = Append(ckSpans, [start |-> ckStart, end |-> end])
           /\ ckStart' = NextStart(end, ckOverlap)
           /\ ckPc' = IF NextStart(end, ckOverlap) >= Len(ckText) THEN "done" ELSE "loop"
    /\ ckSeen' = ckSeen \cup {ckStart}
    /\ UNCHANGED <<ckText, ckSize, ckOverlap>>
    /\ UNCHANGED selVars
    /\ UNCHANGED pipeVars

----------------------------------------------------------------------------
(* services/ingestion.py: ingest_documents.  A Document is [id, text,      *)
(* metadata]; text is a sequence of characters, metadata a dict.           *)

\* the string of a sequence of characters
RECURSIVE Join(_)
Join(s) ==
    IF Len(s) = 0 THEN ""
    ELSE IF Len(s) = 1 THEN s[1]
    ELSE LET h == Len(s) \div 2
         IN  Join(SubSeq(s, 1, h)) \o Join(SubSeq(s, h + 1, Len(s)))

\* datetime.now().isoformat()
Now == "now"

\* the documents given to ingest_documents: the metadata of the second-last
\* names fields of the records; that of the last is what api/pdf.py passes on
\* for the second chunk of a page
TextShort == <<"x", ".", " ", "x">>
TextLong == MkText(ScenarioLen, {}, {})
TextBlank == MkText(ScenarioLen, {}, 0..(ScenarioLen - 1))

NoMeta == [x \in {} |-> x]
MetaClash == [document_id |-> "other", total_chunks |-> 9, chunk_count |-> 5]
MetaPdf == [file_type |-> "pdf", page_number |-> 1, chunk_index |-> 1, chunk_id |-> "n6"]

Doc(id, text, metadata) == [id |-> id, text |-> text, metadata |-> metadata]

DocShort == Doc("n3", TextShort, NoMeta)     \* the id of DocLong, another text
DocEmpty == Doc("n2", <<>>, NoMeta)
DocLong == Doc("n3", TextLong, NoMeta)
DocBlank == Doc("n4", TextBlank, NoMeta)
DocClash == Doc("n5", TextLong, MetaClash)
DocPdf == Doc("n6", TextShort, MetaPdf)

DocLists ==
    {<<DocShort>>, <<DocLong>>, <<DocBlank>>, <<DocClash>>, <<DocPdf>>,
     <<DocEmpty, DocLong>>}

DocSet == UNION {Range(docs) : docs \in DocLists}

\* chunk_text(doc.text) as strings, for every document; chunk_text is a pure
\* function, so its values are computed once
ChunkTable ==
    [doc \in DocSet |->
        LET chunks == chunk_text(doc.text, CHUNK_SIZE, OVERLAP)
        IN  [i \in 1..Len(chunks) |-> Join(chunks[i])]]

\* line 31: chunks = chunk_text(doc.text)
ChunksOf(doc) == ChunkTable[doc]

\* lines 21-28, 32: the document record; a later key of the dict display wins
ProcDoc(doc) ==
    [indexed_at |-> Now, chunk_count |-> Len(ChunksOf(doc))]
        @@ doc.metadata
        @@ [id |-> doc.id, text |-> Join(doc.text), content |-> Join(doc.text)]

\* a variant in which the chunk fields win over the metadata
ProcChunkOwnFieldsWin(doc, chunks, i) ==
    [id |-> doc.id \o "-chunk-" \o ToString(i - 1), text |-> chunks[i],
     content |-> chunks[i], document_id |-> doc.id, chunk_index |-> i - 1,
     total_chunks |-> Len(chunks), indexed_at |-> Now]
        @@ doc.metadata

\* lines 34-44: the record of chunk i (from 1) of doc; a later key of the dict
\* display wins, so the metadata overrides the six fields written before it
ProcChunk(doc, chunks, i) ==
    [indexed_at |-> Now]
        @@ doc.metadata
        @@ [id |-> doc.id \o "-chunk-" \o ToString(i - 1), text |-> chunks[i],
            content |-> chunks[i], document_id |-> doc.id, chunk_index |-> i - 1,
            total_chunks |-> Len(chunks)]

\* lines 33-46 for one document
ChunkRecordsOf(doc) ==
    LET chunks == ChunksOf(doc)
    IN  [i \in 1..Len(chunks) |-> ProcChunk(doc, chunks, i)]

\* lines 19-48: processed_docs, processed_chunks, all_chunk_texts
RECURSIVE ProcessedChunks(_)
ProcessedChunks(documents) ==
    IF documents = <<>> THEN <<>>
    ELSE ChunkRecordsOf(Head(documents)) \o ProcessedChunks(Tail(documents))

RECURSIVE AllChunkTexts(_)
AllChunkTexts(documents) ==
    IF documents = <<>> THEN <<>>
    ELSE ChunksOf(Head(documents)) \o AllChunkTexts(Tail(documents))

ProcessedDocs(documents) == [i \in 1..Len(documents) |-> ProcDoc(documents[i])]

IngestTexts == UNION {Range(AllChunkTexts(docs)) : docs \in DocLists}

AllTexts == Texts \cup Queries \cup RagQueries \cup IngestTexts

----------------------------------------------------------------------------
(* Request slots *)

\* two requests can be in flight at a time
Slots == {1, 2}

Idle ==
    [pc |-> "idle", op |-> "none", texts |-> <<>>, query |-> "", k |-> 0,
     use_embeddings |-> FALSE,
     results |-> <<>>, idxs |-> <<>>,        \* generate_embeddings at its await
     search_method |-> "", hits |-> <<>>,    \* rag_search at the completion await
     selected |-> <<>>, chunks |-> <<>>, context |-> <<>>,
     ret |-> None, err |-> "",               \* the outcome
     \* history of the call
     sent |-> <<>>,           \* the texts sent to the provider
     remote |-> "none",       \* the provider's answer: none | data | failed
     warm |-> {},             \* texts whose vector a call returned < TTL ago, at start
     prior |-> None,          \* the payload computed < TTL ago for the key, at start
     embFailing |-> FALSE,    \* the provider was failing at every step so far
     embGot |-> FALSE,        \* generate_embeddings returned a vector
     embCached |-> FALSE,     \* ... and it came from the cache, without a request
     hybAccept |-> FALSE,     \* ... and the store was accepting a hybrid query
     storeQuery |-> "none",   \* the last store query: none | lexical | hybrid
     llm |-> "none",          \* the completion provider's answer: none | ok | status | error
     \* ingest_documents
     documents |-> <<>>, processed_docs |-> <<>>, processed_chunks |-> <<>>,
     embeddings |-> <<>>,
     submitted |-> FALSE,     \* history: add_documents was called
     gens |-> 0,              \* history: calls of generate_embeddings
     requests |-> 0,          \* history: requests sent to the embedding provider
     \* search_with_reranking
     base |-> None,           \* base_results
     qans |-> "none",         \* q_resp: none | ok | status
     dreqs |-> <<>>,          \* history: the inputs of the requests for documents
     scores |-> <<>>,         \* history: the similarity computed for each hit
     down |-> {}]             \* history: what was unreachable when a route answered 422

Free(s) == procs[s].pc \in {"idle", "returned", "raised"}

\* a request takes the first free slot
FirstFree(s) == Free(s) /\ \A r \in Slots : r < s => ~Free(r)

\* slot s moves to p; the outcome of a finished request is kept in its slot until
\* the next step of a request
Put(s, p) ==
    [r \in Slots |-> IF r = s THEN p ELSE IF Free(r) THEN Idle ELSE procs[r]]

Warm == {t \in AllTexts : lastFetch[t] < _CACHE_TTL}

\* the texts a returning call got from the provider become warm
Fetched(fetch, texts) == [t \in AllTexts |-> IF t \in texts THEN 0 ELSE fetch[t]]

----------------------------------------------------------------------------
(* generate_embeddings called on its own (api/embeddings.py, api/health.py) *)

GenStart(s, texts) ==
    /\ FirstFree(s)
    /\ ncalls < MaxCalls
    /\ ncalls' = ncalls + 1
    /\ LET p0 == [Idle EXCEPT !.op = "generate_embeddings", !.texts = texts,
                              !.warm = Warm, !.embFailing = ~embUp]
           r == EmbPhase1(cache, texts)
       IN  procs' = Put(s,
              CASE r.kind = "raise" -> [p0 EXCEPT !.pc = "raised", !.err = r.err]
                [] r.kind = "return" -> [p0 EXCEPT !.pc = "returned", !.ret = r.value]
                [] OTHER -> [p0 EXCEPT !.pc = "emb_wait", !.results = r.results,
                                       !.idxs = r.idxs,
                                       !.sent = TextsAt(texts, r.idxs)])
    /\ UNCHANGED <<cache, embUp, storeUp, cacheUp, index, nticks, lastFresh, lastFetch>>
    /\ UNCHANGED <<selVars, chunkVars, docIndex>>

GenRespond(s) ==
    /\ procs[s].pc = "emb_wait"
    /\ procs[s].op = "generate_embeddings"
    /\ \E ans \in ProviderAnswers(procs[s].sent) :
          LET p == [procs[s] EXCEPT !.remote = IF ans.kind = "data" THEN "data" ELSE "failed",
                                    !.embFailing = @ /\ ~embUp]
              r == EmbPhase2(cache, p.texts, p.results, p.idxs, ans)
          IN  /\ cache' = r.cache
              /\ procs' = Put(s,
                    IF r.out.kind = "raise"
                    THEN [p EXCEPT !.pc = "raised", !.err = r.out.err]
                    ELSE [p EXCEPT !.pc = "returned", !.ret = r.out.value])
              /\ lastFetch' = IF r.out.kind = "return" /\ ans.kind = "data"
                              THEN Fetched(lastFetch, Range(p.sent))
                              ELSE lastFetch
    /\ UNCHANGED <<embUp, storeUp, cacheUp, index, ncalls, nticks, lastFresh>>
    /\ UNCHANGED <<selVars, chunkVars, docIndex>>

----------------------------------------------------------------------------
(* The chunk index of the document store.  A query answers with at most     *)
(* limit records; the lexical and the vector ranking differ.                *)

Reverse(seq) == [i \in 1..Len(seq) |-> seq[Len(seq) + 1 - i]]

Head_(seq, n) == SubSeq(seq, 1, Min(n, Len(seq)))

\* chunks_index.search(query, {"limit": limit, ...})
LexicalHits(idx, limit) == Head_(SelectSeq(PoolOrder, LAMBDA r : r \in idx), limit)

\* chunks_index.search(query, {"vector": ..., "hybrid": ..., "limit": limit, ...})
HybridHits(idx, limit) == Head_(SelectSeq(Reverse(PoolOrder), LAMBDA r : r \in idx), limit)

\* query.strip() is empty
Blank(query) == query \in {"", " "}

----------------------------------------------------------------------------
(* services/search_service.py: search_chunks *)

SearchResult(hits, total, method) ==
    [hits |-> hits, total |-> total, index_used |-> "chunks", search_method |-> method]

\* a variant that names the method before the hybrid query has succeeded
SearchAfterEmbEager(p, emb, hyb) ==
    LET got == emb.kind = "return" /\ emb.value # <<>>
        p1 == [p EXCEPT !.embGot = got, !.hybAccept = got /\ storeUp /\ hyb]
    IN  IF got /\ storeUp /\ hyb
        THEN [p1 EXCEPT !.pc = "returned", !.storeQuery = "hybrid",
                        !.ret = SearchResult(HybridHits(index, p.k),
                                             Cardinality(index), "hybrid")]
        ELSE IF storeUp
             THEN [p1 EXCEPT !.pc = "returned", !.storeQuery = "lexical",
                             !.ret = SearchResult(LexicalHits(index, p.k), Cardinality(index),
                                                  IF got THEN "hybrid" ELSE "text")]
             ELSE [p1 EXCEPT !.pc = "raised", !.err = "store"]

\* lines 29-46, once generate_embeddings has returned or raised (emb), or was
\* skipped; hyb: the store accepts a hybrid query
SearchAfterEmb(p, emb, hyb) ==
    LET got == emb.kind = "return" /\ emb.value # <<>>
        p1 == [p EXCEPT !.embGot = got, !.hybAccept = got /\ storeUp /\ hyb]
    IN  IF got /\ storeUp /\ hyb
        THEN [p1 EXCEPT !.pc = "returned", !.storeQuery = "hybrid",
                        !.ret = SearchResult(HybridHits(index, p.k),
                                             Cardinality(index), "hybrid")]
        ELSE IF storeUp
             THEN [p1 EXCEPT !.pc = "returned", !.storeQuery = "lexical",
                             !.ret = SearchResult(LexicalHits(index, p.k),
                                                  Cardinality(index), "text")]
             ELSE [p1 EXCEPT !.pc = "raised", !.err = "store"]

Skipped == [kind |-> "skip"]

\* lines 18-28: validation, get_index, and generate_embeddings up to its await
SearchStart(s, query, k, use_embeddings) ==
    /\ FirstFree(s)
    /\ ncalls < MaxCalls
    /\ ncalls' = ncalls + 1
    /\ \E hyb \in BOOLEAN :
        LET p0 == [Idle EXCEPT !.op = "search_chunks", !.query = query, !.k = k,
                               !.use_embeddings = use_embeddings,
                               !.texts = <<query>>,
                               !.embFailing = ~embUp]
            r == EmbPhase1(cache, <<query>>)
        IN  procs' = Put(s,
               IF Blank(query) THEN [p0 EXCEPT !.pc = "raised", !.err = "validation"]
               ELSE IF ~storeUp THEN [p0 EXCEPT !.pc = "raised", !.err = "store"]
               ELSE IF ~use_embeddings THEN SearchAfterEmb(p0, Skipped, hyb)
               ELSE IF r.kind = "await"
                    THEN [p0 EXCEPT !.pc = "emb_wait", !.results = r.results,
                                    !.idxs = r.idxs, !.sent = <<query>>]
                    ELSE SearchAfterEmb(p0, r, hyb))
    /\ UNCHANGED <<cache, embUp, storeUp, cacheUp, index, nticks, lastFresh, lastFetch>>
    /\ UNCHANGED <<selVars, chunkVars, docIndex>>

\* the provider answers; lines 28-46
SearchRespond(s) ==
    /\ procs[s].pc = "emb_wait"
    /\ procs[s].op = "search_chunks"
    /\ \E ans \in ProviderAnswers(procs[s].sent), hyb \in BOOLEAN :
          LET p == [procs[s] EXCEPT !.remote = IF ans.kind = "data" THEN "data" ELSE "failed",
                                    !.embFailing = @ /\ ~embUp]
              r == EmbPhase2(cache, p.texts, p.results, p.idxs, ans)
          IN  /\ cache' = r.cache
              /\ procs' = Put(s, SearchAfterEmb(p, r.out, hyb))
              /\ lastFetch' = IF r.out.kind = "return" /\ ans.kind = "data"
                              THEN Fetched(lastFetch, Range(p.sent))
                              ELSE lastFetch
    /\ UNCHANGED <<embUp, storeUp, cacheUp, index, ncalls, nticks, lastFresh>>
    /\ UNCHANGED <<selVars, chunkVars, docIndex>>

----------------------------------------------------------------------------
(* services/llm_service.py: generate_rag_answer *)

LLM_STATUS_ANSWER == "I found relevant chunks but could not generate an answer."
LLM_ERROR_ANSWER == "I found chunks but could not generate an answer due to an error."
NO_CHUNKS_ANSWER == "I couldn't find any relevant chunks to answer your question."
NO_CONTENT_ANSWER == "I found chunks but couldn't extract readable content from them."

\* what the completion provider can do with a request: a 200 answer with one of
\* several texts, another status, or a timeout / transport error
LlmAnswers ==
    {[kind |-> "ok", content |-> "A1"], [kind |-> "ok", content |-> "A2"],
     [kind |-> "status"], [kind |-> "error"]}

\* lines 22-42
generate_rag_answer(ans) ==
    CASE ans.kind = "ok" -> ans.content
      [] ans.kind = "status" -> LLM_STATUS_ANSWER
      [] OTHER -> LLM_ERROR_ANSWER

----------------------------------------------------------------------------
(* services/rag_service.py: rag_search *)

\* a variant of the key that leaves use_embeddings out
RagKeyNoFlag(query, k, use_embeddings) ==
    "rag:" \o md5_hash(query) \o ":" \o ToString(k)

\* a variant whose key leaves k out
RagKeyNoK(query, k, use_embeddings) ==
    "rag:" \o md5_hash(query \o ":" \o (IF use_embeddings THEN "True" ELSE "False"))

\* line 25: f"rag:{md5_hash(f'{query}:{k}:{use_embeddings}')}"
RagKey(query, k, use_embeddings) ==
    "rag:" \o md5_hash(query \o ":" \o ToString(k) \o ":"
                       \o (IF use_embeddings THEN "True" ELSE "False"))

\* a variant that cuts a content of exactly 300 characters too
TruncateFrom300(content) ==
    IF content.len >= DISPLAY_MAX
    THEN [content EXCEPT !.len = DISPLAY_MAX, !.ell = TRUE]
    ELSE content

\* line 86: content[:300] + "..." if len(content) > 300 else content
Truncate(content) ==
    IF content.len > DISPLAY_MAX
    THEN [content EXCEPT !.len = DISPLAY_MAX, !.ell = TRUE]
    ELSE content

\* line 75: h.get("content") or h.get("text", "")
ContentOf(h) ==
    IF "content" \in DOMAIN h /\ h.content.len > 0 THEN h.content
    ELSE IF "text" \in DOMAIN h THEN h.text ELSE Str("", 0)

\* lines 76-78, for the i-th selected hit (i counts from 1)
TitleOf(h, i) == IF "title" \in DOMAIN h THEN h.title ELSE "Chunk " \o ToString(i)
OutDocId(h, i) == IF "document_id" \in DOMAIN h THEN h.document_id ELSE "doc-" \o ToString(i - 1)
OutIndex(h, i) == IF "chunk_index" \in DOMAIN h THEN h.chunk_index ELSE i - 1

\* lines 81-88: the chunk of the result built from the i-th selected hit
OutChunk(h, i) ==
    [id |-> IF "id" \in DOMAIN h THEN h.id ELSE "chunk-" \o ToString(i - 1),
     document_id |-> OutDocId(h, i),
     chunk_index |-> OutIndex(h, i),
     content |-> Truncate(ContentOf(h)),
     metadata |-> [f \in DOMAIN h \ {"text", "content", "_vectors"} |-> h[f]]]

\* line 81: the part of the context built from the i-th selected hit
ContextPart(h, i) ==
    [title |-> TitleOf(h, i), chunk_index |-> OutIndex(h, i), content |-> ContentOf(h)]

\* lines 72-88: the loop over selected, skipping hits without content
RECURSIVE BuildChunks(_, _)
BuildChunks(selected, i) ==
    IF i > Len(selected) THEN <<>>
    ELSE IF ContentOf(selected[i]).len = 0 THEN BuildChunks(selected, i + 1)
         ELSE <<OutChunk(selected[i], i)>> \o BuildChunks(selected, i + 1)

RECURSIVE BuildContext(_, _)
BuildContext(selected, i) ==
    IF i > Len(selected) THEN <<>>
    ELSE IF ContentOf(selected[i]).len = 0 THEN BuildContext(selected, i + 1)
         ELSE <<ContextPart(selected[i], i)>> \o BuildContext(selected, i + 1)

\* a variant that names the method the caller asked for
RagResultHybrid(answer, chunks, total, method) ==
    [answer |-> answer, chunks |-> chunks, total_chunks_found |-> total,
     cached |-> FALSE, search_method |-> "hybrid"]

RagResult(answer, chunks, total, method) ==
    [answer |-> answer, chunks |-> chunks, total_chunks_found |-> total,
     cached |-> FALSE, search_method |-> method]

\* a variant that does not store a degraded answer
RagStoreUnlessDegraded(c, key, result) ==
    IF result.answer \in {LLM_STATUS_ANSWER, LLM_ERROR_ANSWER} THEN c
    ELSE set_json(c, key, [result EXCEPT !.cached = FALSE], RAG_TTL)

\* a variant that stores the entry for one clock tick only
RagStoreShort(c, key, result) ==
    set_json(c, key, [result EXCEPT !.cached = FALSE], TickSeconds)

\* a variant that writes nothing
RagStoreNothing(c, key, result) == c

\* lines 67, 98, 111: set_json(cache_key, {**result, "cached": False}, 600)
RagStore(c, key, result) == set_json(c, key, [result EXCEPT !.cached = FALSE], RAG_TTL)

\* the call returns result after writing it to the cache, or raises when Redis
\* is unreachable
RagReturn(p, result) ==
    IF cacheUp THEN [p EXCEPT !.pc = "returned", !.ret = result]
    ELSE [p EXCEPT !.pc = "raised", !.err = "cache"]

\* lines 34-99, once generate_embeddings has returned or raised (emb), or was
\* skipped: the store query, the selection, the chunks and the context.
\* The call returns, raises, or awaits the completion provider.
RagAfterEmb(p, emb, hyb) ==
    LET got == emb.kind = "return" /\ emb.value # <<>>
        hybridOk == got /\ storeUp /\ hyb
        p1 == [p EXCEPT !.embGot = got, !.hybAccept = got /\ storeUp /\ hyb,
                        !.embCached = got /\ p.sent = <<>>,
                        !.storeQuery = IF hybridOk THEN "hybrid" ELSE "lexical"]
        method == IF hybridOk THEN "hybrid" ELSE "text"
        hits == IF hybridOk THEN HybridHits(index, p.k * OVERFETCH)
                ELSE LexicalHits(index, p.k * OVERFETCH)
        selected == select_chunks(hits, p.k)
        chunks == BuildChunks(selected, 1)
    IN  IF ~storeUp THEN [p1 EXCEPT !.pc = "raised", !.err = "store"]
        ELSE IF hits = <<>>
             THEN RagReturn([p1 EXCEPT !.search_method = method],
                            RagResult(NO_CHUNKS_ANSWER, <<>>, 0, method))
        ELSE IF chunks = <<>>
             THEN RagReturn([p1 EXCEPT !.search_method = method, !.hits = hits,
                                       !.selected = selected],
                            RagResult(NO_CONTENT_ANSWER, <<>>, Len(hits), method))
        ELSE [p1 EXCEPT !.pc = "llm_wait", !.search_method = method, !.hits = hits,
                        !.selected = selected, !.chunks = chunks,
                        !.context = BuildContext(selected, 1)]

\* the payload a returning call has just written, as the history keeps it
Fresh(fresh, p) ==
    IF p.pc = "returned" /\ ~p.ret.cached
    THEN [fresh EXCEPT ![RagKey(p.query, p.k, p.use_embeddings)] =
             [answer |-> p.ret.answer, chunks |-> p.ret.chunks,
              total_chunks_found |-> p.ret.total_chunks_found,
              search_method |-> p.ret.search_method, age |-> 0]]
    ELSE fresh

\* a variant in which a call that fails on the store caches an empty result
CacheAfterStoreError(c, p) ==
    IF p.pc = "returned" /\ ~p.ret.cached
    THEN RagStore(c, RagKey(p.query, p.k, p.use_embeddings), p.ret)
    ELSE IF p.pc = "raised" /\ p.err = "store"
    THEN RagStore(c, RagKey(p.query, p.k, p.use_embeddings),
                  RagResult(NO_CHUNKS_ANSWER, <<>>, 0, "text"))
    ELSE c

\* a variant in which a cache hit renews the TTL of the entry
CacheAfterRenew(c, p) ==
    IF p.pc = "returned"
    THEN RagStore(c, RagKey(p.query, p.k, p.use_embeddings), p.ret)
    ELSE c

\* a variant that writes the returned payload back on a cache hit too
CacheAfterAlways(c, p) ==
    IF p.pc = "returned"
    THEN set_json(c, RagKey(p.query, p.k, p.use_embeddings), p.ret, RAG_TTL)
    ELSE c

\* lines 67, 98, 111: a call that returns a computed result has written it; the
\* return of line 29 writes nothing
CacheAfter(c, p) ==
    IF p.pc = "returned" /\ ~p.ret.cached
    THEN RagStore(c, RagKey(p.query, p.k, p.use_embeddings), p.ret)
    ELSE c

\* lines 23-37: the cache lookup, get_index, generate_embeddings up to its await
RagStart(s, query, k, use_embeddings) ==
    /\ FirstFree(s)
    /\ ncalls < MaxCalls
    /\ ncalls' = ncalls + 1
    /\ \E hyb \in BOOLEAN :
        LET key == RagKey(query, k, use_embeddings)
            p0 == [Idle EXCEPT !.op = "rag_search", !.query = query, !.k = k,
                               !.use_embeddings = use_embeddings,
                               !.texts = <<query>>,
                               !.prior = lastFresh[key],
                               !.embFailing = ~embUp]
            cached == get_json(cache, key)
            r == EmbPhase1(cache, <<query>>)
            p1 == IF ~cacheUp THEN [p0 EXCEPT !.pc = "raised", !.err = "cache"]
                  ELSE IF cached # None
                       THEN [p0 EXCEPT !.pc = "returned",
                                       !.ret = [cached EXCEPT !.cached = TRUE]]
                  ELSE IF ~storeUp THEN [p0 EXCEPT !.pc = "raised", !.err = "store"]
                  ELSE IF ~use_embeddings THEN RagAfterEmb(p0, Skipped, hyb)
                  ELSE IF r.kind = "await"
                       THEN [p0 EXCEPT !.pc = "emb_wait", !.results = r.results,
                                       !.idxs = r.idxs, !.sent = <<query>>]
                       ELSE RagAfterEmb(p0, r, hyb)
        IN  /\ procs' = Put(s, p1)
            /\ cache' = CacheAfter(cache, p1)
            /\ lastFresh' = Fresh(lastFresh, p1)
    /\ UNCHANGED <<embUp, storeUp, cacheUp, index, nticks, lastFetch>>
    /\ UNCHANGED <<selVars, chunkVars, docIndex>>

\* the embedding provider answers; lines 37-99
RagEmbRespond(s) ==
    /\ procs[s].pc = "emb_wait"
    /\ procs[s].op = "rag_search"
    /\ \E ans \in ProviderAnswers(procs[s].sent), hyb \in BOOLEAN :
          LET p == [procs[s] EXCEPT !.remote = IF ans.kind = "data" THEN "data" ELSE "failed",
                                    !.embFailing = @ /\ ~embUp]
              r == EmbPhase2(cache, p.texts, p.results, p.idxs, ans)
              p1 == RagAfterEmb(p, r.out, hyb)
          IN  /\ procs' = Put(s, p1)
              /\ cache' = CacheAfter(r.cache, p1)
              /\ lastFresh' = Fresh(lastFresh, p1)
              /\ lastFetch' = IF r.out.kind = "return" /\ ans.kind = "data"
                              THEN Fetched(lastFetch, Range(p.sent))
                              ELSE lastFetch
    /\ UNCHANGED <<embUp, storeUp, cacheUp, index, ncalls, nticks>>
    /\ UNCHANGED <<selVars, chunkVars, docIndex>>

\* the completion provider answers; lines 101-112
RagLlmRespond(s) ==
    /\ procs[s].pc = "llm_wait"
    /\ \E ans \in LlmAnswers :
          LET p == [procs[s] EXCEPT !.llm = ans.kind]
              p1 == RagReturn(p, RagResult(generate_rag_answer(ans), p.chunks,
                                           Len(p.hits), p.search_method))
          IN  /\ procs' = Put(s, p1)
              /\ cache' = CacheAfter(cache, p1)
              /\ lastFresh' = Fresh(lastFresh, p1)
    /\ UNCHANGED <<embUp, storeUp, cacheUp, index, ncalls, nticks, lastFetch>>
    /\ UNCHANGED <<selVars, chunkVars, docIndex>>

----------------------------------------------------------------------------
(* services/ingestion.py: ingest_documents, from the embeddings on *)

\* a variant that attaches the vectors it has, and null to the rest
AttachVectorsPartial(processed_chunks, embeddings) ==
    [i \in 1..Len(processed_chunks) |->
        ("_vectors" :> [default |-> IF i <= Len(embeddings) THEN embeddings[i] ELSE None])
            @@ processed_chunks[i]]

\* lines 54-60: one vector per chunk in order, or null everywhere
AttachVectors(processed_chunks, embeddings) ==
    [i \in 1..Len(processed_chunks) |->
        ("_vectors" :> [default |-> IF Len(embeddings) = Len(processed_chunks)
                                    THEN embeddings[i] ELSE None])
            @@ processed_chunks[i]]

\* index.add_documents(records): a record replaces the one with its id; of
\* two records of the batch with one id the later stays
AddDocuments(idx, records) ==
    LET ids == {records[i].id : i \in 1..Len(records)}
        last(id) == CHOOSE i \in 1..Len(records) :
                        /\ records[i].id = id
                        /\ \A j \in 1..Len(records) : records[j].id = id => j <= i
    IN  {r \in idx : r.id \notin ids} \cup {records[last(id)] : id \in ids}

\* a variant that counts one chunk per document
IngestResultPerDoc(processed_docs, processed_chunks, embeddings) ==
    [indexed |-> Len(processed_docs), chunks_created |-> Len(processed_docs),
     embeddings_generated |-> Len(embeddings)]

\* lines 66-72
IngestResult(processed_docs, processed_chunks, embeddings) ==
    [indexed |-> Len(processed_docs), chunks_created |-> Len(processed_chunks),
     embeddings_generated |-> Len(embeddings)]

\* lines 52-72, once generate_embeddings has returned or raised (emb): the
\* slot, and the two indexes
IngestAfterEmb(p, emb) ==
    IF emb.kind = "raise"
    THEN [proc |-> [p EXCEPT !.pc = "raised", !.err = emb.err],
          index |-> index, docIndex |-> docIndex]
    ELSE LET vectored == AttachVectors(p.processed_chunks, emb.value)
             p1 == [p EXCEPT !.processed_chunks = vectored, !.embeddings = emb.value,
                             !.submitted = TRUE]
         IN  IF ~storeUp
             THEN [proc |-> [p1 EXCEPT !.pc = "raised", !.err = "store"],
                   index |-> index, docIndex |-> docIndex]
             ELSE [proc |-> [p1 EXCEPT !.pc = "returned",
                                       !.ret = IngestResult(p.processed_docs, vectored,
                                                            emb.value)],
                   index |-> AddDocuments(index, vectored),
                   docIndex |-> AddDocuments(docIndex, p.processed_docs)]

\* lines 14-52: get_index, the records, and generate_embeddings up to its await
IngestBegin(s, documents) ==
    /\ FirstFree(s)
    /\ LET p0 == [Idle EXCEPT !.op = "ingest_documents", !.documents = documents,
                              !.embFailing = ~embUp]
           p1 == [p0 EXCEPT !.processed_docs = ProcessedDocs(documents),
                            !.processed_chunks = ProcessedChunks(documents),
                            !.texts = AllChunkTexts(documents),
                            !.gens = 1]
           r == EmbPhase1(cache, p1.texts)
           after == IF ~storeUp
                    THEN [proc |-> [p0 EXCEPT !.pc = "raised", !.err = "store"],
                          index |-> index, docIndex |-> docIndex]
                    ELSE IF r.kind = "await"
                    THEN [proc |-> [p1 EXCEPT !.pc = "emb_wait", !.results = r.results,
                                              !.idxs = r.idxs,
                                              !.sent = TextsAt(p1.texts, r.idxs),
                                              !.requests = 1],
                          index |-> index, docIndex |-> docIndex]
                    ELSE IngestAfterEmb(p1, r)
       IN  /\ procs' = Put(s, after.proc)
           /\ index' = after.index
           /\ docIndex' = after.docIndex
    /\ UNCHANGED <<cache, embUp, storeUp, cacheUp, nticks, lastFresh, lastFetch>>
    /\ UNCHANGED <<selVars, chunkVars>>

\* one of the MaxCalls requests of a behaviour is a call of ingest_documents
IngestStart(s, documents) ==
    /\ ncalls < MaxCalls
    /\ ncalls' = ncalls + 1
    /\ IngestBegin(s, documents)

\* the provider answers; lines 52-72
IngestRespond(s) ==
    /\ procs[s].pc = "emb_wait"
    /\ procs[s].op = "ingest_documents"
    /\ \E ans \in ProviderAnswers(procs[s].sent) :
          LET p == [procs[s] EXCEPT !.remote = IF ans.kind = "data" THEN "data" ELSE "failed",
                                    !.embFailing = @ /\ ~embUp]
              r == EmbPhase2(cache, p.texts, p.results, p.idxs, ans)
              after == IngestAfterEmb(p, r.out)
          IN  /\ cache' = r.cache
              /\ procs' = Put(s, after.proc)
              /\ index' = after.index
              /\ docIndex' = after.docIndex
              /\ lastFetch' = IF r.out.kind = "return" /\ ans.kind = "data"
                              THEN Fetched(lastFetch, Range(p.sent))
                              ELSE lastFetch
    /\ UNCHANGED <<embUp, storeUp, cacheUp, ncalls, nticks, lastFresh>>
    /\ UNCHANGED <<selVars, chunkVars>>

----------------------------------------------------------------------------
(* services/rerank_service.py: search_with_reranking *)

\* a variant that sends the content of the first hit only
DocumentsOfFirst(hits) == <<hits[1].content>>

\* line 14: documents = [chunk["content"] for chunk in hits]
DocumentsOf(hits) == [i \in 1..Len(hits) |-> hits[i].content]

\* line 12
RerankEmpty(query) ==
    [query |-> query, chunks |-> <<>>, rerank_scores |-> <<>>, total_chunks_found |-> 0,
     search_method |-> "hybrid+rerank"]

\* the cosine similarities the two answers of the provider can give
ScoreValues == {1, 2}

\* the provider's answer to the request for the query embedding
QueryAnswers == IF embUp THEN {"ok"} ELSE {"status", "raise"}

\* the provider's answer to the request for the n document embeddings, told by
\* the similarity of each to the query embedding
DocAnswers(n) ==
    IF embUp THEN {[kind |-> "data", scores |-> sc] : sc \in [1..n -> ScoreValues]}
    ELSE {[kind |-> "status"], [kind |-> "raise"]}

\* line 38: zip(hits, scores)
Scored(hits, scores) ==
    [i \in 1..Min(Len(hits), Len(scores)) |-> [chunk |-> hits[i], score |-> scores[i]]]

\* a variant that puts x before the entries of sorted that score as much
RECURSIVE InsertByScoreFront(_, _)
InsertByScoreFront(sorted, x) ==
    IF sorted = <<>> THEN <<x>>
    ELSE IF Head(sorted).score > x.score
         THEN <<Head(sorted)>> \o InsertByScoreFront(Tail(sorted), x)
         ELSE <<x>> \o sorted

\* x put behind the entries of sorted that score at least as much
RECURSIVE InsertByScore(_, _)
InsertByScore(sorted, x) ==
    IF sorted = <<>> THEN <<x>>
    ELSE IF Head(sorted).score >= x.score
         THEN <<Head(sorted)>> \o InsertByScore(Tail(sorted), x)
         ELSE <<x>> \o sorted

\* line 39: scored_chunks.sort(key=score, reverse=True), a stable sort
RECURSIVE SortByScore(_, _, _)
SortByScore(scored, i, sorted) ==
    IF i > Len(scored) THEN sorted
    ELSE SortByScore(scored, i + 1, InsertByScore(sorted, scored[i]))

\* lines 41-47
RerankResult(query, scored_chunks, total) ==
    [query |-> query,
     chunks |-> [i \in 1..Len(scored_chunks) |-> scored_chunks[i].chunk],
     rerank_scores |-> [i \in 1..Len(scored_chunks) |-> scored_chunks[i].score],
     total_chunks_found |-> total,
     search_method |-> "hybrid+rerank"]

\* a variant that requests the embeddings whatever the number of hits
RerankAfterSearchAlways(p) ==
    IF p.pc = "raised" THEN p
    ELSE [p EXCEPT !.pc = "q_wait", !.hits = p.ret.hits, !.base = p.ret, !.ret = None,
                   !.requests = @ + 1]

\* lines 10-19, once search_chunks has returned or raised in slot p: no hit
\* ends the call, otherwise the request for the query embedding goes out
RerankAfterSearch(p) ==
    IF p.pc = "raised" THEN p
    ELSE IF p.ret.hits = <<>> THEN [p EXCEPT !.ret = RerankEmpty(p.query)]
    ELSE [p EXCEPT !.pc = "q_wait", !.hits = p.ret.hits, !.base = p.ret, !.ret = None,
                   !.requests = @ + 1]

\* line 9: search_chunks(req.query, req.k, use_embeddings=True) up to its await
RerankStart(s, query, k) ==
    /\ FirstFree(s)
    /\ ncalls < MaxCalls
    /\ ncalls' = ncalls + 1
    /\ \E hyb \in BOOLEAN :
        LET p0 == [Idle EXCEPT !.op = "search_with_reranking", !.query = query, !.k = k,
                               !.use_embeddings = TRUE,
                               !.texts = <<query>>,
                               !.embFailing = ~embUp]
            r == EmbPhase1(cache, <<query>>)
        IN  procs' = Put(s,
               IF Blank(query) THEN [p0 EXCEPT !.pc = "raised", !.err = "validation"]
               ELSE IF ~storeUp THEN [p0 EXCEPT !.pc = "raised", !.err = "store"]
               ELSE IF r.kind = "await"
                    THEN [p0 EXCEPT !.pc = "emb_wait", !.results = r.results,
                                    !.idxs = r.idxs, !.sent = <<query>>,
                                    !.gens = 1, !.requests = 1]
                    ELSE RerankAfterSearch(
                             SearchAfterEmb([p0 EXCEPT !.gens = 1], r, hyb)))
    /\ UNCHANGED <<cache, embUp, storeUp, cacheUp, index, nticks, lastFresh, lastFetch>>
    /\ UNCHANGED <<selVars, chunkVars, docIndex>>

\* the provider answers search_chunks; lines 9-19
RerankSearchRespond(s) ==
    /\ procs[s].pc = "emb_wait"
    /\ procs[s].op = "search_with_reranking"
    /\ \E ans \in ProviderAnswers(procs[s].sent), hyb \in BOOLEAN :
          LET p == [procs[s] EXCEPT !.remote = IF ans.kind = "data" THEN "data" ELSE "failed",
                                    !.embFailing = @ /\ ~embUp]
              r == EmbPhase2(cache, p.texts, p.results, p.idxs, ans)
          IN  /\ cache' = r.cache
              /\ procs' = Put(s, RerankAfterSearch(SearchAfterEmb(p, r.out, hyb)))
              /\ lastFetch' = IF r.out.kind = "return" /\ ans.kind = "data"
                              THEN Fetched(lastFetch, Range(p.sent))
                              ELSE lastFetch
    /\ UNCHANGED <<embUp, storeUp, cacheUp, index, ncalls, nticks, lastFresh>>
    /\ UNCHANGED <<selVars, chunkVars, docIndex>>

\* lines 19-24: the answer to the query request arrives (an exception of httpx
\* is not caught) and the request for the documents goes out
RerankQueryRespond(s) ==
    /\ procs[s].pc = "q_wait"
    /\ \E ans \in QueryAnswers :
          procs' = Put(s,
              IF ans = "raise"
              THEN [procs[s] EXCEPT !.pc = "raised", !.err = "embedding"]
              ELSE [procs[s] EXCEPT !.pc = "d_wait", !.qans = ans,
                                    !.dreqs = Append(@, DocumentsOf(procs[s].hits)),
                                    !.requests = @ + 1])
    /\ UNCHANGED <<cache, embUp, storeUp, cacheUp, index, ncalls, nticks, lastFresh,
                   lastFetch>>
    /\ UNCHANGED <<selVars, chunkVars, docIndex>>

\* lines 24-47: the answer to the documents request arrives; an answer without
\* "data" (another status) fails lines 30-31
RerankDocsRespond(s) ==
    /\ procs[s].pc = "d_wait"
    /\ \E ans \in DocAnswers(Len(procs[s].hits)) :
          procs' = Put(s,
              IF ans.kind # "data" \/ procs[s].qans # "ok"
              THEN [procs[s] EXCEPT !.pc = "raised", !.err = "embedding"]
              ELSE [procs[s] EXCEPT
                       !.pc = "returned",
                       !.scores = ans.scores,
                       !.ret = RerankResult(procs[s].query,
                                   SortByScore(Scored(procs[s].hits, ans.scores), 1, <<>>),
                                   procs[s].base.total)])
    /\ UNCHANGED <<cache, embUp, storeUp, cacheUp, index, ncalls, nticks, lastFresh,
                   lastFetch>>
    /\ UNCHANGED <<selVars, chunkVars, docIndex>>

----------------------------------------------------------------------------
(* api/search.py, api/search_rerank.py: the routes of the four searches *)

\* the k values a request can carry, valid or not
RouteKValues == {0 - 1, 0, 1}

\* the queries a request can carry: empty, blank, or a word
RouteQueries == {"", " ", "a"}

\* not req.query or req.k <= 0
InvalidRequest(query, k) == query = "" \/ k <= 0

\* a variant of the rejection that comes after the cache has been read
RejectedLate(p) ==
    IF cacheUp THEN [p EXCEPT !.pc = "raised", !.err = "validation"]
    ELSE [p EXCEPT !.pc = "raised", !.err = "cache"]

\* raise HTTPException(422, "Invalid query or k")
Rejected(p) == [p EXCEPT !.pc = "raised", !.err = "validation"]

\* what is unreachable now
Down ==
    (IF cacheUp THEN {} ELSE {"cache"}) \cup (IF storeUp THEN {} ELSE {"store"})
        \cup (IF embUp THEN {} ELSE {"embedding"})

\* the route answers 422 to the request op(query, k, use_embeddings)
Reject(s, op, query, k, use_embeddings) ==
    /\ FirstFree(s)
    /\ ncalls < MaxCalls
    /\ ncalls' = ncalls + 1
    /\ procs' = Put(s, Rejected([Idle EXCEPT !.op = op, !.query = query, !.k = k,
                                             !.use_embeddings = use_embeddings,
                                             !.down = Down]))
    /\ UNCHANGED <<cache, embUp, storeUp, cacheUp, index, nticks, lastFresh, lastFetch>>
    /\ UNCHANGED <<selVars, chunkVars, docIndex>>

\* the records of a set in the order the store ranks them
RECURSIVE Ranked(_)
Ranked(S) ==
    IF S = {} THEN <<>>
    ELSE LET r == CHOOSE x \in S : TRUE IN <<r>> \o Ranked(S \ {r})

\* search_documents: a lexical query of the documents index
search_documents(p) ==
    IF Blank(p.query) THEN [p EXCEPT !.pc = "raised", !.err = "validation"]
    ELSE IF ~storeUp THEN [p EXCEPT !.pc = "raised", !.err = "store"]
    ELSE [p EXCEPT !.pc = "returned", !.storeQuery = "lexical",
                   !.ret = [hits |-> Head_(Ranked(docIndex), p.k),
                            total |-> Cardinality(docIndex),
                            index_used |-> "documents", search_method |-> "text",
                            query |-> p.query]]

\* POST /search-direct
search_direct(s, query, k) ==
    \/ /\ InvalidRequest(query, k)
       /\ Reject(s, "search_documents", query, k, FALSE)
    \/ /\ ~InvalidRequest(query, k)
       /\ FirstFree(s)
       /\ ncalls < MaxCalls
       /\ ncalls' = ncalls + 1
       /\ procs' = Put(s, search_documents([Idle EXCEPT !.op = "search_documents",
                                                        !.query = query, !.k = k]))
       /\ UNCHANGED <<cache, embUp, storeUp, cacheUp, index, nticks, lastFresh,
                      lastFetch>>
       /\ UNCHANGED <<selVars, chunkVars, docIndex>>

\* POST /search-chunks
search_chunks_route(s, query, k, use_embeddings) ==
    \/ /\ InvalidRequest(query, k)
       /\ Reject(s, "search_chunks", query, k, use_embeddings)
    \/ /\ ~InvalidRequest(query, k)
       /\ SearchStart(s, query, k, use_embeddings)

\* POST /search
rag_route(s, query, k, use_embeddings) ==
    \/ /\ InvalidRequest(query, k)
       /\ Reject(s, "rag_search", query, k, use_embeddings)
    \/ /\ ~InvalidRequest(query, k)
       /\ RagStart(s, query, k, use_embeddings)

\* POST /search-rerank
search_rerank(s, query, k) ==
    \/ /\ InvalidRequest(query, k)
       /\ Reject(s, "search_with_reranking", query, k, TRUE)
    \/ /\ ~InvalidRequest(query, k)
       /\ RerankStart(s, query, k)

----------------------------------------------------------------------------
(* The environment *)

\* a request is in flight or can still start: the environment matters
Live == ncalls < MaxCalls \/ \E s \in Slots : ~Free(s)

ToggleEmb ==
    /\ Live
    /\ embUp' = ~embUp
    /\ UNCHANGED <<cache, storeUp, cacheUp, index, procs, ncalls, nticks,
                   lastFresh, lastFetch>>
    /\ UNCHANGED <<selVars, chunkVars, docIndex>>

ToggleStore ==
    /\ Live
    /\ storeUp' = ~storeUp
    /\ UNCHANGED <<cache, embUp, cacheUp, index, procs, ncalls, nticks,
                   lastFresh, lastFetch>>
    /\ UNCHANGED <<selVars, chunkVars, docIndex>>

ToggleCache ==
    /\ Live
    /\ cacheUp' = ~cacheUp
    /\ UNCHANGED <<cache, embUp, storeUp, index, procs, ncalls, nticks,
                   lastFresh, lastFetch>>
    /\ UNCHANGED <<selVars, chunkVars, docIndex>>

AgeFresh(f, d) ==
    IF f = None \/ f.age + d >= RAG_TTL THEN None ELSE [f EXCEPT !.age = @ + d]

\* d seconds pass: Redis expires entries; the histories age with them
Tick(d) ==
    /\ Live
    /\ nticks < MaxTicks
    /\ nticks' = nticks + 1
    /\ cache' = Expire(cache, d)
    /\ lastFetch' = [t \in AllTexts |-> Min(lastFetch[t] + d, _CACHE_TTL)]
    /\ lastFresh' = [key \in DOMAIN lastFresh |-> AgeFresh(lastFresh[key], d)]
    /\ UNCHANGED <<embUp, storeUp, cacheUp, index, procs, ncalls>>
    /\ UNCHANGED <<selVars, chunkVars, docIndex>>

----------------------------------------------------------------------------
(* Specifications *)

RagKeys == {RagKey(q, k, ue) : q \in Queries \cup RagQueries, k \in KValues, ue \in BOOLEAN}

Corpora == {{}, Pool}

PipeInit ==
    /\ cache = <<>>
    /\ embUp = TRUE
    /\ storeUp = TRUE
    /\ cacheUp = TRUE
    /\ index \in Corpora
    /\ docIndex = {}
    /\ procs = [s \in Slots |-> Idle]
    /\ ncalls = 0
    /\ nticks = 0
    /\ lastFresh = [key \in RagKeys |-> None]
    /\ lastFetch = [t \in AllTexts |-> _CACHE_TTL]

SelIdle ==
    /\ selHits = <<>>
    /\ selK = 1
    /\ selOut = <<>>
    /\ selPc = "off"

ChunkIdle ==
    /\ ckText = <<>>
    /\ ckSize = 1
    /\ ckOverlap = 0
    /\ ckStart = 0
    /\ ckChunks = <<>>
    /\ ckSpans = <<>>
    /\ ckSeen = {}
    /\ ckPc = "off"

SelInit ==
    /\ \E in \in SelInputs : selHits = in[1] /\ selK = in[2]
    /\ selOut = <<>>
    /\ selPc = "ready"
    /\ PipeInit
    /\ index = {}
    /\ ChunkIdle

SelNext == SelectCall

SpecSelect == SelInit /\ [][SelNext]_vars

EmbInit == PipeInit /\ index = {} /\ SelIdle /\ ChunkIdle

EmbNext ==
    \/ \E s \in Slots, texts \in TextLists : GenStart(s, texts)
    \/ \E s \in Slots : GenRespond(s)
    \/ ToggleEmb
    \/ ToggleCache
    \/ \E d \in TickSteps : Tick(d)

SpecEmb == EmbInit /\ [][EmbNext]_vars

----------------------------------------------------------------------------
(* Properties of generate_embeddings, checked under SpecEmb *)

GenCalls == {s \in Slots : procs[s].op = "generate_embeddings"}

\* C8: generate_embeddings never raises: when the remote call fails entirely
\* (status, timeout, transport error) the call returns the vectors of the cache
\* hits only.
C8_RemoteFailureReturnsHits ==
    \A s \in GenCalls :
        procs[s].remote = "failed" =>
            /\ procs[s].pc = "returned"
            /\ procs[s].ret = Flatten(procs[s].results)

\* C9: a text whose vector a call returned from a successful remote call less than
\* _CACHE_TTL seconds before a later call starts is not sent to the provider by
\* that call.
C9_WarmTextsNotSent ==
    \A s \in GenCalls : Range(procs[s].sent) \cap procs[s].warm = {}

\* a call made after time has passed mixes warm texts with a text it must send
C9_Witness ==
    \E s \in GenCalls :
        /\ procs[s].pc = "returned"
        /\ nticks > 0
        /\ Range(procs[s].texts) \cap procs[s].warm # {}
        /\ procs[s].sent # <<>>

\* C10: when the remote call succeeded, or no remote call was needed, the call
\* returns one vector per text, the i-th being the vector of texts[i].
C10_OneVectorPerText ==
    \A s \in GenCalls :
        (procs[s].pc = "returned" /\ procs[s].remote # "failed") =>
            procs[s].ret = [i \in 1..Len(procs[s].texts) |-> Vec(procs[s].texts[i])]

\* a returned call of two texts, one served from the cache and one by the provider
C10_Witness ==
    \E s \in GenCalls :
        /\ procs[s].pc = "returned"
        /\ procs[s].remote = "data"
        /\ Len(procs[s].texts) = 2
        /\ Len(procs[s].sent) = 1
        /\ procs[s].idxs = <<1>>

----------------------------------------------------------------------------
SearchInit == PipeInit /\ SelIdle /\ ChunkIdle

SearchNext ==
    \/ \E s \in Slots, q \in Queries, k \in KValues, ue \in BOOLEAN :
          SearchStart(s, q, k, ue)
    \/ \E s \in Slots : SearchRespond(s)
    \/ ToggleEmb
    \/ ToggleStore
    \/ ToggleCache
    \/ \E d \in TickSteps : Tick(d)

SpecSearch == SearchInit /\ [][SearchNext]_vars

RagInit == PipeInit /\ SelIdle /\ ChunkIdle

RagNext ==
    \/ \E s \in Slots, q \in RagQueries, k \in KValues, ue \in BOOLEAN :
          RagStart(s, q, k, ue)
    \/ \E s \in Slots : RagEmbRespond(s)
    \/ \E s \in Slots : RagLlmRespond(s)
    \/ ToggleEmb
    \/ ToggleStore
    \/ ToggleCache
    \/ \E d \in TickSteps : Tick(d)

Spec == RagInit /\ [][RagNext]_vars

----------------------------------------------------------------------------
(* Properties of search_chunks, checked under SpecSearch *)

SearchCalls == {s \in Slots : procs[s].op = "search_chunks"}

\* C1: a returning search_chunks call answers search_method "hybrid" exactly when
\* use_embeddings is set, the query embedding was obtained and the store accepted
\* the hybrid query; otherwise it answers "text" with the hits of a lexical query
\* of limit k.
C1_HybridIffEmbeddingAndStore ==
    \A s \in SearchCalls :
        procs[s].pc = "returned" =>
            LET p == procs[s]
                hybrid == p.use_embeddings /\ p.embGot /\ p.hybAccept
            IN  /\ p.ret.search_method = (IF hybrid THEN "hybrid" ELSE "text")
                /\ ~hybrid => p.ret.hits = LexicalHits(index, p.k)
                /\ ~hybrid => Len(p.ret.hits) <= p.k

\* the embedding was obtained, the hybrid query failed, the lexical hits came back
C1_Witness ==
    \E s \in SearchCalls :
        /\ procs[s].pc = "returned"
        /\ procs[s].use_embeddings
        /\ procs[s].embGot
        /\ ~procs[s].hybAccept
        /\ procs[s].ret.search_method = "text"
        /\ procs[s].ret.hits # <<>>

----------------------------------------------------------------------------
(* Properties of rag_search, checked under Spec *)

RagCalls == {s \in Slots : procs[s].op = "rag_search"}

\* C2: the only failure search_chunks or rag_search raises to its caller is a
\* failure of the document store (a blank query rejected by search_chunks is a
\* validation error, not a failure).
C2_OnlyStoreFailureRaised ==
    \A s \in Slots :
        (procs[s].op \in {"search_chunks", "rag_search"} /\ procs[s].pc = "raised") =>
            procs[s].err \in {"store", "validation"}

\* C3: a rag_search call that starts less than RAG_TTL seconds after a call with
\* the same arguments returned a computed result returns cached = true with that
\* result's answer and chunks; a call that starts with no such result behind it
\* returns cached = false.
C3_SecondCallServedFromCache ==
    \A s \in RagCalls :
        procs[s].pc = "returned" =>
            IF procs[s].prior = None
            THEN ~procs[s].ret.cached
            ELSE /\ procs[s].ret.cached
                 /\ procs[s].ret.answer = procs[s].prior.answer
                 /\ procs[s].ret.chunks = procs[s].prior.chunks

\* a call served from the cache after time has passed, with an answer of the
\* completion provider and chunks
C3_Witness ==
    \E s \in RagCalls :
        /\ procs[s].pc = "returned"
        /\ procs[s].ret.cached
        /\ nticks > 0
        /\ procs[s].ret.answer \in {"A1", "A2"}
        /\ procs[s].ret.chunks # <<>>

\* C4 as stated, for the calls that return: with the embedding provider failing,
\* rag_search with use_embeddings = true returns search_method "text", whatever
\* calls preceded it.
C4_FailingBackendGivesText ==
    \A s \in RagCalls :
        (procs[s].use_embeddings /\ procs[s].embFailing /\ procs[s].pc = "returned") =>
            procs[s].ret.search_method = "text"

\* C4 amended: with the embedding provider failing, a rag_search call with
\* use_embeddings = true that is neither served from the rag cache nor finds the
\* query's embedding in the embedding cache returns search_method "text" if it
\* returns, and it raises only when Redis or the document store is unreachable.
C4_FailingBackendGivesTextUncached ==
    \A s \in RagCalls :
        (procs[s].use_embeddings /\ procs[s].embFailing) =>
            /\ (procs[s].pc = "returned" /\ ~procs[s].ret.cached /\ ~procs[s].embCached)
                   => procs[s].ret.search_method = "text"
            /\ procs[s].pc = "raised" => procs[s].err \in {"cache", "store"}

\* the provider failed the request of the call, which returned a computed result
C4_Witness ==
    \E s \in RagCalls :
        /\ procs[s].use_embeddings
        /\ procs[s].embFailing
        /\ procs[s].remote = "failed"
        /\ procs[s].pc = "returned"
        /\ procs[s].ret.search_method = "text"
        /\ procs[s].ret.chunks # <<>>

PerDocCount(chunks, d) == Cardinality({i \in 1..Len(chunks) : chunks[i].document_id = d})

\* C5: the selection of a rag_search call, and the chunks of every result it
\* returns (computed or served from the cache), hold at most PER_DOC entries of
\* one document_id.
C5_AtMostTwoPerDocument ==
    \A s \in RagCalls :
        /\ \A h \in Range(procs[s].selected) :
               PerDocCount(procs[s].selected, h.document_id) <= PER_DOC
        /\ procs[s].pc = "returned" =>
               \A c \in Range(procs[s].ret.chunks) :
                   PerDocCount(procs[s].ret.chunks, c.document_id) <= PER_DOC

\* a result served from the cache with two chunks of a document of which the
\* store answered three
C5_Witness ==
    \E s \in RagCalls :
        /\ procs[s].pc = "returned"
        /\ procs[s].ret.cached
        /\ procs[s].ret.total_chunks_found > Len(procs[s].ret.chunks)
        /\ \E c \in Range(procs[s].ret.chunks) :
               PerDocCount(procs[s].ret.chunks, c.document_id) = PER_DOC

----------------------------------------------------------------------------
(* Properties of _select_chunks, checked under SpecSelect *)

\* the hit at position i is one of the first PER_DOC hits of its document
Eligible(hits, i) ==
    Cardinality({j \in 1..(i - 1) : DocIdOf(hits[j]) = DocIdOf(hits[i])}) < PER_DOC

\* the positions a single pass takes: the eligible ones, until k are taken
Taken(hits, k) ==
    {i \in 1..Len(hits) :
        /\ Eligible(hits, i)
        /\ Cardinality({j \in 1..(i - 1) : Eligible(hits, j)}) < k}

\* the hits at the positions of T, in the order of hits
Restrict(hits, T) == SelectSeq([i \in 1..Len(hits) |-> <<i, hits[i]>>],
                               LAMBDA e : e[1] \in T)

\* C6: _select_chunks(hits, k) returns at most k entries.
C6_AtMostK == selPc = "done" => Len(selOut) <= selK

\* the hit list offers more eligible hits than k, and k are returned
C6_Witness ==
    /\ selPc = "done"
    /\ Cardinality({i \in 1..Len(selHits) : Eligible(selHits, i)}) > selK
    /\ Len(selOut) = selK

\* C7: the list _select_chunks returns is the subsequence of hits at the positions
\* a single pass takes: a hit is taken if fewer than PER_DOC hits of its document
\* were taken before it, and the pass stops once k are taken.
C7_SubsequenceOfSinglePass ==
    selPc = "done" =>
        LET T == Taken(selHits, selK)
            R == Restrict(selHits, T)
        IN  /\ Len(selOut) = Len(R)
            /\ \A j \in 1..Len(R) : selOut[j] = R[j][2]
            /\ \A j \in 1..(Len(R) - 1) : R[j][1] < R[j + 1][1]

\* a hit in the middle is skipped and a later hit is taken
C7_Witness ==
    /\ selPc = "done"
    /\ \E i \in 1..Len(selHits) :
          /\ ~Eligible(selHits, i)
          /\ \E j \in (i + 1)..Len(selHits) : selHits[j] \in Range(selOut)

----------------------------------------------------------------------------
(* chunk_text on its own: every text of at most MaxTextLen characters with *)
(* every small chunk_size and overlap, and the long texts with the default *)
(* parameters.                                                             *)

Alphabet == {"x", ".", "!", " "}

SmallTexts == UNION {[1..n -> Alphabet] : n \in 0..MaxTextLen}

EndSets == {{}, {CHUNK_SIZE - LOOKBACK}, {CHUNK_SIZE - 1}, {CHUNK_SIZE - LOOKBACK - 1},
            {CHUNK_SIZE - LOOKBACK, 2 * CHUNK_SIZE - 2 * LOOKBACK - OVERLAP + 1},
            {CHUNK_SIZE - LOOKBACK, CHUNK_SIZE - 2}}

BlankSets == {{}, 0..(ScenarioLen - 1), 0..(CHUNK_SIZE - 1), {0, ScenarioLen - 1},
              (CHUNK_SIZE - OVERLAP)..(ScenarioLen - 1)}

LongTexts == {MkText(ScenarioLen, ends, blanks) : ends \in EndSets, blanks \in BlankSets}

SmallInputs == SmallTexts \X (1..MaxSize) \X (0..MaxOverlap)

ChunkInputs == SmallInputs \cup (LongTexts \X {CHUNK_SIZE} \X {OVERLAP})

\* chunk_text(text, chunk_size, overlap) is called
ChunkCall(text, chunk_size, overlap) ==
    /\ ckPc = "off"
    /\ ckText' = text
    /\ ckSize' = chunk_size
    /\ ckOverlap' = overlap
    /\ ckPc' = "entry"
    /\ UNCHANGED <<ckStart, ckChunks, ckSpans, ckSeen>>
    /\ UNCHANGED selVars
    /\ UNCHANGED pipeVars

ChunkInit == ChunkIdle /\ PipeInit /\ index = {} /\ SelIdle

ChunkNext ==
    \/ \E in \in ChunkInputs : ChunkCall(in[1], in[2], in[3])
    \/ ChunkEnter
    \/ ChunkIterate

SpecChunk == ChunkInit /\ [][ChunkNext]_vars

ChunkNextSmall ==
    \/ \E in \in SmallInputs : ChunkCall(in[1], in[2], in[3])
    \/ ChunkEnter
    \/ ChunkIterate

\* the calls with small parameters; a call that has entered runs whenever it can
SpecChunkFair ==
    ChunkInit /\ [][ChunkNextSmall]_vars /\ WF_vars(ChunkEnter) /\ WF_vars(ChunkIterate)

----------------------------------------------------------------------------
(* Properties of chunk_text *)

\* C16: a text no longer than chunk_size is returned as the single chunk [T],
\* unmodified, whatever the overlap.
C16_ShortTextIsItsOnlyChunk ==
    (ckPc = "done" /\ Len(ckText) <= ckSize) => ckChunks = <<ckText>>

\* a short text with a leading blank, returned under a positive overlap
C16_Witness ==
    /\ ckPc = "done"
    /\ Len(ckText) <= ckSize
    /\ Len(ckText) >= 2
    /\ ckText[1] = " "
    /\ ckOverlap > 0

\* index p of the text is one that the slice text[start:end] takes
InSpan(text, span, p) ==
    Norm(span.start, Len(text)) <= p /\ p < Norm(span.end, Len(text))

C18_Terminates == (ckPc = "entry") ~> (ckPc = "done")

\* C19: every string chunk_text returns is non-empty and has no leading or
\* trailing whitespace.
C19_ChunksNonEmptyTrimmed ==
    ckPc = "done" =>
        \A i \in 1..Len(ckChunks) :
            /\ ckChunks[i] # <<>>
            /\ ckChunks[i][1] # " "
            /\ ckChunks[i][Len(ckChunks[i])] # " "

----------------------------------------------------------------------------
(* ingest_documents and search_with_reranking *)

IngestInit == PipeInit /\ index = Pool /\ SelIdle /\ ChunkIdle

IngestNext ==
    \/ \E s \in Slots, documents \in DocLists : IngestStart(s, documents)
    \/ \E s \in Slots : IngestRespond(s)
    \/ \E s \in Slots, query \in RagQueries : RerankStart(s, query, MaxK)
    \/ \E s \in Slots : RerankSearchRespond(s)
    \/ \E s \in Slots : RerankQueryRespond(s)
    \/ \E s \in Slots : RerankDocsRespond(s)
    \/ ToggleEmb
    \/ ToggleStore
    \/ ToggleCache

SpecIngest == IngestInit /\ [][IngestNext]_vars

IngestCalls == {s \in Slots : procs[s].op = "ingest_documents"}
RerankCalls == {s \in Slots : procs[s].op = "search_with_reranking"}

----------------------------------------------------------------------------
(* Properties of ingest_documents and search_with_reranking, under SpecIngest *)

\* the call in slot s has built its records
Built(s) == procs[s].gens = 1

\* C11: whatever the number of texts, a call of generate_embeddings sends at
\* most one request and none without a cache miss; ingest_documents calls the
\* generator once, with the chunks of all its documents; a rerank call sends the
\* contents of all its candidates in one request.
C11_OneRequestPerBatch ==
    /\ \A s \in IngestCalls :
          /\ procs[s].gens <= 1
          /\ procs[s].requests <= 1
          /\ procs[s].requests = 1 => procs[s].sent # <<>>
          /\ procs[s].pc \in {"emb_wait", "returned"} =>
                /\ procs[s].gens = 1
                /\ procs[s].texts =
                      [i \in 1..Len(procs[s].processed_chunks) |->
                          procs[s].processed_chunks[i].content]
                /\ Range(procs[s].sent) \subseteq Range(procs[s].texts)
    /\ \A s \in RerankCalls :
          /\ procs[s].gens <= 1
          /\ Len(procs[s].dreqs) <= 1
          /\ procs[s].requests <= 3
          /\ (procs[s].pc = "d_wait"
                \/ (procs[s].pc = "returned" /\ procs[s].ret.chunks # <<>>)) =>
                procs[s].dreqs =
                    <<[i \in 1..Len(procs[s].hits) |-> procs[s].hits[i].content]>>

\* an ingest of two documents waits for its one request of four chunks while a
\* rerank call waits for the answer to its one request of three contents
C11_Witness ==
    \E s \in IngestCalls, r \in RerankCalls :
        /\ procs[s].pc = "emb_wait"
        /\ Len(procs[s].documents) = 2
        /\ Len(procs[s].sent) = 4
        /\ procs[r].pc = "d_wait"
        /\ Len(procs[r].hits) = 3

\* C12: once the generator has been called, the chunks of the call get vector i
\* for chunk i when the counts agree and a null vector each otherwise, and the
\* document and chunk records are submitted to the store.
C12_VectorsAllOrNoneAndSubmitted ==
    \A s \in IngestCalls :
        (Built(s) /\ procs[s].pc \in {"returned", "raised"}) =>
            /\ procs[s].submitted
            /\ \A i \in 1..Len(procs[s].processed_chunks) :
                  procs[s].processed_chunks[i]["_vectors"].default =
                      IF Len(procs[s].embeddings) = Len(procs[s].processed_chunks)
                      THEN procs[s].embeddings[i] ELSE None
            /\ procs[s].pc = "returned" =>
                  /\ \A i \in 1..Len(procs[s].processed_chunks) :
                        procs[s].processed_chunks[i] \in index
                  /\ \A i \in 1..Len(procs[s].processed_docs) :
                        procs[s].processed_docs[i] \in docIndex

\* C20: against a store without hits, rag_search returns no chunks, a total of
\* 0 and the fixed answer, and leaves that result in the cache for RAG_TTL
\* seconds; a call with the same arguments within that time returns cached =
\* true with the same answer and chunks.  (Checked under Spec.)
C20_NoHitsCannedAndCached ==
    \A s \in RagCalls :
        (procs[s].pc = "returned" /\ index = {}) =>
            LET key == RagKey(procs[s].query, procs[s].k, procs[s].use_embeddings)
            IN  /\ procs[s].ret.chunks = <<>>
                /\ procs[s].ret.total_chunks_found = 0
                /\ procs[s].ret.answer = NO_CHUNKS_ANSWER
                /\ procs[s].ret.cached = (procs[s].prior # None)
                /\ (~procs[s].ret.cached /\ lastFresh[key] # None) =>
                      /\ key \in DOMAIN cache
                      /\ Loads(cache[key].val) = procs[s].ret
                      /\ cache[key].ttl = RAG_TTL - lastFresh[key].age

\* a call against the empty store is served from the cache after time has passed
C20_Witness ==
    \E s \in RagCalls :
        /\ procs[s].pc = "returned"
        /\ index = {}
        /\ procs[s].ret.cached
        /\ procs[s].ret.answer = NO_CHUNKS_ANSWER
        /\ nticks > 0

\* the chunks the chunker returns for the documents before position d
RECURSIVE ChunksBefore(_, _)
ChunksBefore(documents, d) ==
    IF d = 1 THEN 0
    ELSE ChunksBefore(documents, d - 1) + Len(ChunksOf(documents[d - 1]))

\* C13: every chunk record keeps its own id, document_id, chunk_index,
\* total_chunks, text and content, whatever keys the metadata has.
C13_ChunkFieldsWin ==
    \A s \in IngestCalls :
        Built(s) =>
            \A d \in 1..Len(procs[s].documents) :
                LET doc == procs[s].documents[d]
                    chunks == ChunksOf(doc)
                IN  \A i \in 1..Len(chunks) :
                        LET rec == procs[s].processed_chunks[
                                       ChunksBefore(procs[s].documents, d) + i]
                        IN  /\ rec.id = doc.id \o "-chunk-" \o ToString(i - 1)
                            /\ rec.document_id = doc.id
                            /\ rec.chunk_index = i - 1
                            /\ rec.total_chunks = Len(chunks)
                            /\ rec.text = chunks[i]
                            /\ rec.content = chunks[i]

\* C14: a document of N chunks gets N chunk records, with chunk_index 0..N-1
\* in chunker order and total_chunks = N, and a document record with
\* chunk_count = N.
C14_IndexesAndCountsAgree ==
    \A s \in IngestCalls :
        Built(s) =>
            /\ Len(procs[s].processed_chunks) =
                  ChunksBefore(procs[s].documents, Len(procs[s].documents) + 1)
            /\ \A d \in 1..Len(procs[s].documents) :
                  LET n == Len(ChunksOf(procs[s].documents[d]))
                      at == ChunksBefore(procs[s].documents, d)
                  IN  /\ procs[s].processed_docs[d].chunk_count = n
                      /\ \A i \in 1..n :
                            /\ procs[s].processed_chunks[at + i].chunk_index = i - 1
                            /\ procs[s].processed_chunks[at + i].total_chunks = n

\* the calls that ingest one document of ScenarioLen characters
ScenarioCalls ==
    {s \in IngestCalls :
        /\ Built(s)
        /\ Len(procs[s].documents) = 1
        /\ Len(procs[s].documents[1].text) = ScenarioLen}

----------------------------------------------------------------------------
(* rag_search when the completion provider fails, checked under Spec *)

\* C21: a rag_search call whose completion request was answered with a
\* non-success status or failed with a transport error does not raise: it returns
\* one of the two degraded answers, with the chunks, total_chunks_found and
\* search_method it computed before the request.
C21_LlmFailureReturnsDegraded ==
    \A s \in RagCalls :
        procs[s].llm \in {"status", "error"} =>
            /\ procs[s].pc = "returned"
            /\ procs[s].ret.answer \in {LLM_STATUS_ANSWER, LLM_ERROR_ANSWER}
            /\ procs[s].ret.chunks = procs[s].chunks
            /\ procs[s].ret.total_chunks_found = Len(procs[s].hits)
            /\ procs[s].ret.search_method = procs[s].search_method

----------------------------------------------------------------------------
(* search_with_reranking on an empty or a filled chunk index *)

RerankInit == PipeInit /\ SelIdle /\ ChunkIdle

RerankNext ==
    \/ \E s \in Slots, query \in Queries, k \in KValues : RerankStart(s, query, k)
    \/ \E s \in Slots : RerankSearchRespond(s)
    \/ \E s \in Slots : RerankQueryRespond(s)
    \/ \E s \in Slots : RerankDocsRespond(s)
    \/ ToggleEmb
    \/ ToggleStore
    \/ ToggleCache
    \/ \E d \in TickSteps : Tick(d)

SpecRerank == RerankInit /\ [][RerankNext]_vars

\* the rerank calls whose base retrieval has returned no hit
ZeroHitCalls ==
    {s \in RerankCalls : procs[s].storeQuery # "none" /\ procs[s].hits = <<>>}

\* C22 as stated: a rerank call whose base retrieval returns no hit returns
\* chunks = [], rerank_scores = [] and total_chunks_found = 0, and no request
\* is made to the embedding provider during the call.
C22_ZeroHitsNoEmbeddingRequest ==
    \A s \in ZeroHitCalls :
        /\ procs[s].pc = "returned"
        /\ procs[s].ret.chunks = <<>>
        /\ procs[s].ret.rerank_scores = <<>>
        /\ procs[s].ret.total_chunks_found = 0
        /\ procs[s].requests = 0

\* C22 amended: such a call returns chunks = [], rerank_scores = [] and
\* total_chunks_found = 0, the rerank step sends no request, and the only
\* request of the call is the one its base retrieval may send for the embedding
\* of the query.
C22_ZeroHitsNoRerankRequest ==
    \A s \in ZeroHitCalls :
        /\ procs[s].pc = "returned"
        /\ procs[s].ret.chunks = <<>>
        /\ procs[s].ret.rerank_scores = <<>>
        /\ procs[s].ret.total_chunks_found = 0
        /\ procs[s].qans = "none"
        /\ procs[s].dreqs = <<>>
        /\ procs[s].requests = Len(procs[s].sent)
        /\ procs[s].sent \in {<<>>, <<procs[s].query>>}

\* a call without hits has returned after its base retrieval asked the provider
\* for the embedding of the query
C22_Witness ==
    \E s \in ZeroHitCalls :
        /\ procs[s].pc = "returned"
        /\ procs[s].ret.chunks = <<>>
        /\ procs[s].requests = 1
        /\ procs[s].sent = <<procs[s].query>>

\* the position in hits of the chunk returned at position i
RankOf(hits, chunk) == CHOOSE j \in 1..Len(hits) : hits[j] = chunk

\* C23: the chunks a rerank call returns are its base hits, each once, in the
\* order of non-increasing score; hits of equal score keep their retrieval
\* order; rerank_scores[i] is the score of chunks[i].
C23_StableDescendingOrder ==
    \A s \in RerankCalls :
        (procs[s].pc = "returned" /\ procs[s].hits # <<>>) =>
            LET hits == procs[s].hits
                chunks == procs[s].ret.chunks
                rs == procs[s].ret.rerank_scores
                n == Len(hits)
            IN  /\ Len(chunks) = n
                /\ Len(rs) = n
                /\ Len(procs[s].scores) = n
                /\ Range(chunks) = Range(hits)
                /\ \A i \in 1..n : rs[i] = procs[s].scores[RankOf(hits, chunks[i])]
                /\ \A i, j \in 1..n :
                      i < j =>
                         \/ rs[i] > rs[j]
                         \/ /\ rs[i] = rs[j]
                            /\ RankOf(hits, chunks[i]) < RankOf(hits, chunks[j])

\* three hits came back reordered: the last hit scored highest and the first
\* two scored the same
C23_Witness ==
    \E s \in RerankCalls :
        /\ procs[s].pc = "returned"
        /\ Len(procs[s].hits) = 3
        /\ procs[s].scores = <<1, 1, 2>>
        /\ procs[s].ret.chunks =
              <<procs[s].hits[3], procs[s].hits[1], procs[s].hits[2]>>

----------------------------------------------------------------------------
(* Failures of the cache and of the providers *)

\* C24: an unreachable cache never surfaces to the caller of rag_search or of
\* generate_embeddings: no such call ends with the error of a cache get or setex.
C24_CacheFailureSwallowed ==
    \A s \in Slots :
        procs[s].op \in {"rag_search", "generate_embeddings"} =>
            ~(procs[s].pc = "raised" /\ procs[s].err = "cache")

\* C25: no pipeline operation (search_chunks, rag_search, search_with_reranking,
\* ingest_documents) ends with the error of the embedding or completion
\* provider: a non-success status, a timeout or a network error degrades the
\* result and is never raised.
C25_ProviderFailureNeverRaised ==
    \A s \in Slots :
        procs[s].op \in {"search_chunks", "rag_search", "search_with_reranking",
                         "ingest_documents"} =>
            ~(procs[s].pc = "raised" /\ procs[s].err = "embedding")

----------------------------------------------------------------------------
(* The four search routes together, with valid and invalid requests *)

ApiInit ==
    /\ PipeInit
    /\ SelIdle
    /\ ChunkIdle

ApiNext ==
    \/ \E s \in Slots, q \in RouteQueries, k \in RouteKValues : search_direct(s, q, k)
    \/ \E s \in Slots, q \in RouteQueries, k \in RouteKValues, ue \in BOOLEAN :
          search_chunks_route(s, q, k, ue)
    \/ \E s \in Slots, q \in RouteQueries, k \in RouteKValues, ue \in BOOLEAN :
          rag_route(s, q, k, ue)
    \/ \E s \in Slots, q \in RouteQueries, k \in RouteKValues : search_rerank(s, q, k)
    \/ \E s \in Slots : SearchRespond(s)
    \/ \E s \in Slots : RagEmbRespond(s)
    \/ \E s \in Slots : RagLlmRespond(s)
    \/ \E s \in Slots : RerankSearchRespond(s)
    \/ \E s \in Slots : RerankQueryRespond(s)
    \/ \E s \in Slots : RerankDocsRespond(s)
    \/ ToggleEmb
    \/ ToggleStore
    \/ ToggleCache

SpecApi == ApiInit /\ [][ApiNext]_vars

\* the requests with an empty query or with k <= 0
InvalidCalls ==
    {s \in Slots : procs[s].op # "none" /\ InvalidRequest(procs[s].query, procs[s].k)}

\* C26: a search, chunk-search, RAG-search or rerank request with an empty query
\* or with k <= 0 ends with a validation error whatever the state of the cache,
\* the document store and the providers, and none of them has been called: no
\* store query, no embedding request, no completion request, no cache write.
C26_InvalidRequestRejectedFirst ==
    \A s \in InvalidCalls :
        /\ procs[s].pc = "raised"
        /\ procs[s].err = "validation"
        /\ procs[s].storeQuery = "none"
        /\ procs[s].sent = <<>>
        /\ procs[s].gens = 0
        /\ procs[s].requests = 0
        /\ procs[s].llm = "none"
        /\ procs[s].ret = None

\* a RAG-search request with k = 0 is rejected while the cache, the store and the
\* embedding provider are all unreachable
C26_Witness ==
    \E s \in InvalidCalls :
        /\ procs[s].op = "rag_search"
        /\ procs[s].query = "a"
        /\ procs[s].k = 0
        /\ procs[s].err = "validation"
        /\ procs[s].down = {"cache", "store", "embedding"}

\* the search_chunks and rag_search calls made with use_embeddings = false and
\* accepted by their route
TextCalls ==
    {s \in Slots : /\ procs[s].op \in {"search_chunks", "rag_search"}
                   /\ ~procs[s].use_embeddings
                   /\ ~InvalidRequest(procs[s].query, procs[s].k)}

\* C27: with use_embeddings = false, search_chunks and rag_search never ask for
\* an embedding (no request to the provider, no vector obtained, no failure of
\* the embedding cache met by search_chunks) and never issue a hybrid query; the
\* only store query is lexical, and every result returned, served from the rag
\* cache or not, has search_method "text".
C27_TextOnlyWithoutEmbeddings ==
    \A s \in TextCalls :
        /\ procs[s].pc # "emb_wait"
        /\ procs[s].sent = <<>>
        /\ procs[s].remote = "none"
        /\ ~procs[s].embGot
        /\ procs[s].storeQuery \in {"none", "lexical"}
        /\ procs[s].pc = "returned" => procs[s].ret.search_method = "text"
        /\ (procs[s].pc = "returned" /\ procs[s].op = "search_chunks") =>
              procs[s].storeQuery = "lexical"
        /\ (procs[s].pc = "returned" /\ procs[s].op = "rag_search"
              /\ ~procs[s].ret.cached) => procs[s].storeQuery = "lexical"
        /\ (procs[s].pc = "raised" /\ procs[s].op = "search_chunks") =>
              procs[s].err \in {"validation", "store"}

\* a rag_search call with use_embeddings = false is served from the rag cache
\* with search_method "text" and chunks, while the embedding provider is up
C27_Witness ==
    \E s \in TextCalls :
        /\ procs[s].op = "rag_search"
        /\ procs[s].pc = "returned"
        /\ procs[s].ret.cached
        /\ procs[s].ret.search_method = "text"
        /\ procs[s].ret.chunks # <<>>
        /\ embUp

----------------------------------------------------------------------------
(* The rag cache, checked under Spec *)

PayloadFields == {"answer", "chunks", "total_chunks_found", "search_method", "cached"}

\* C28: every value under a rag cache key is a complete payload with cached =
\* false, the one the last computing call for the key returned, and its TTL is
\* RAG_TTL less the time since that call: it was written with RAG_TTL and no
\* later cache hit rewrote it.  A call served from the cache returns the stored
\* payload with cached = true, and the entry is as it was until it expires.
C28_StoredPayloadsCompleteUncached ==
    /\ \A key \in RagKeys \cap DOMAIN cache :
          LET v == Loads(cache[key].val)
          IN  /\ DOMAIN v = PayloadFields
              /\ v.cached = FALSE
              /\ v.search_method \in {"text", "hybrid"}
              /\ v.total_chunks_found >= Len(v.chunks)
              /\ lastFresh[key] # None
              /\ v.answer = lastFresh[key].answer
              /\ v.chunks = lastFresh[key].chunks
              /\ cache[key].ttl = RAG_TTL - lastFresh[key].age
    /\ \A s \in RagCalls :
          (procs[s].pc = "returned" /\ procs[s].ret.cached) =>
              LET key == RagKey(procs[s].query, procs[s].k, procs[s].use_embeddings)
              IN  key \in DOMAIN cache =>
                      procs[s].ret = [Loads(cache[key].val) EXCEPT !.cached = TRUE]

\* a call is served from the cache TickSeconds after the entry was written: the
\* entry has chunks, cached = false and the rest of its TTL
C28_Witness ==
    \E s \in RagCalls :
        LET key == RagKey(procs[s].query, procs[s].k, procs[s].use_embeddings)
        IN  /\ procs[s].pc = "returned"
            /\ procs[s].ret.cached
            /\ key \in DOMAIN cache
            /\ cache[key].ttl = RAG_TTL - TickSeconds
            /\ Loads(cache[key].val).cached = FALSE
            /\ Loads(cache[key].val).chunks # <<>>

\* C29: the rag cache key is made of (query, k, use_embeddings) alone.  A
\* computed result names the method of the store query that produced it, so a
\* text fallback under use_embeddings = true is stored as "text" and stays in
\* the cache until it expires; a call with the same arguments that returns
\* within RAG_TTL returns that result with the same answer, chunks, total and
\* search_method, without a store query or an embedding request, whatever the
\* state of the embedding provider by then.
C29_FallbackResultServedUnchanged ==
    \A s \in RagCalls :
        procs[s].pc = "returned" =>
            LET p == procs[s]
                key == RagKey(p.query, p.k, p.use_embeddings)
            IN  /\ key = "rag:" \o md5_hash(p.query \o ":" \o ToString(p.k) \o ":"
                                   \o (IF p.use_embeddings THEN "True" ELSE "False"))
                /\ ~p.ret.cached =>
                      /\ p.ret.search_method =
                            (IF p.storeQuery = "hybrid" THEN "hybrid" ELSE "text")
                      /\ key \in DOMAIN cache => get_json(cache, key) = p.ret
                /\ p.prior # None =>
                      /\ p.ret.cached
                      /\ p.ret.answer = p.prior.answer
                      /\ p.ret.chunks = p.prior.chunks
                      /\ p.ret.total_chunks_found = p.prior.total_chunks_found
                      /\ p.ret.search_method = p.prior.search_method
                      /\ p.storeQuery = "none"
                      /\ p.sent = <<>>

\* with the embedding provider up again, a call with use_embeddings = true is
\* served the "text" result of an earlier fallback, with its chunks
C29_Witness ==
    \E s \in RagCalls :
        /\ procs[s].pc = "returned"
        /\ procs[s].use_embeddings
        /\ ~procs[s].embFailing
        /\ embUp
        /\ storeUp
        /\ procs[s].prior # None
        /\ procs[s].ret.cached
        /\ procs[s].ret.search_method = "text"
        /\ procs[s].ret.chunks # <<>>

----------------------------------------------------------------------------
(* The two collections after ingests, checked under SpecIngest *)

\* the ids of the documents ingested without metadata
PlainIds == {doc.id : doc \in {x \in DocSet : x.metadata = NoMeta}}

\* the chunk records of the chunk collection that carry document_id id
ChunkRecords(id) == {r \in index : r.document_id = id}

\* C30: after any sequence of ingests, the chunk records that share a
\* document_id carry the same total_chunks n, their indexes are exactly
\* 0..n-1, and they are the chunks of the text of the document record of that
\* id, whose chunk_count is n.
C30_ChunkRecordsOfOneIngest ==
    \A id \in PlainIds :
        LET recs == ChunkRecords(id)
        IN  /\ \A r1, r2 \in recs : r1.total_chunks = r2.total_chunks
            /\ \A r \in recs :
                  /\ {q.chunk_index : q \in recs} = 0..(r.total_chunks - 1)
                  /\ Cardinality(recs) = r.total_chunks
            /\ \A d \in docIndex :
                  d.id = id =>
                     /\ Cardinality(recs) = d.chunk_count
                     /\ \E doc \in DocSet :
                           /\ doc.id = id
                           /\ Join(doc.text) = d.text
                           /\ \A r \in recs :
                                 r.content = ChunksOf(doc)[r.chunk_index + 1]

----------------------------------------------------------------------------
(* Overwrites of cache entries, checked under Spec *)

\* C31 as stated: a write to a cache key that holds a value stores an equal
\* value, whether the key is an embedding key or a rag key.
C31_WritesStoreEqualValues ==
    [][\A key \in DOMAIN cache \cap DOMAIN cache' : cache'[key].val = cache[key].val]_vars

\* C31 amended: the value under an embedding key is the vector of the text of
\* the key, whichever call wrote it and whenever, so an overwrite of an
\* embedding entry leaves its value as it was.  (The payload under a rag key is
\* the result of the last call that wrote it.)
C31_EmbeddingWritesStoreEqualValues ==
    \A t \in AllTexts :
        EmbKey(t) \in DOMAIN cache => Loads(cache[EmbKey(t)].val) = Vec(t)

\* two concurrent calls have both received the vector of the query from the
\* provider and written it under the same key
C31_Witness ==
    /\ \A s \in Slots :
          /\ procs[s].op = "rag_search"
          /\ procs[s].pc = "llm_wait"
          /\ procs[s].sent = <<procs[s].query>>
          /\ procs[s].remote = "data"
    /\ procs[1].query = procs[2].query
    /\ EmbKey(procs[1].query) \in DOMAIN cache

----------------------------------------------------------------------------
(* The result of ingest_documents, checked under SpecIngest *)

\* the number of chunks chunk_text makes of the documents from position d on
RECURSIVE ChunkTotal(_, _)
ChunkTotal(documents, d) ==
    IF d > Len(documents) THEN 0
    ELSE Len(ChunksOf(documents[d])) + ChunkTotal(documents, d + 1)

\* C32: a returning ingest_documents call answers indexed = the number of its
\* documents, chunks_created = the number of chunk records built over all of
\* them, embeddings_generated = the number of vectors the generator returned;
\* the last equals chunks_created unless a request to the embedding provider
\* failed; one document no longer than CHUNK_SIZE gives 1, 1, 1.
C32_IngestCounts ==
    \A s \in IngestCalls :
        procs[s].pc = "returned" =>
            LET p == procs[s] IN
            /\ p.ret.indexed = Len(p.documents)
            /\ p.ret.chunks_created = ChunkTotal(p.documents, 1)
            /\ p.ret.chunks_created = Len(p.processed_chunks)
            /\ p.ret.embeddings_generated = Len(p.embeddings)
            /\ p.remote # "failed" => p.ret.embeddings_generated = p.ret.chunks_created
            /\ (Len(p.documents) = 1 /\ Len(p.documents[1].text) <= CHUNK_SIZE
                   /\ p.remote # "failed") =>
                  p.ret = [indexed |-> 1, chunks_created |-> 1, embeddings_generated |-> 1]

\* an ingest of two documents with four chunks in all has returned 2, 4, 4
\* after the provider answered its request
C32_Witness ==
    \E s \in IngestCalls :
        /\ procs[s].pc = "returned"
        /\ procs[s].remote = "data"
        /\ procs[s].ret = [indexed |-> 2, chunks_created |-> 4, embeddings_generated |-> 4]

----------------------------------------------------------------------------
(* The chunks and the context of rag_search, checked under Spec *)

\* the selected hits that have content, in order
Readable(selected) == SelectSeq(selected, LAMBDA h : h.content.len > 0)

\* C33: every chunk of a result carries at most DISPLAY_MAX characters of
\* content, with an ellipsis exactly when the hit's content was longer; the
\* chunks of a computed result are made of the selected hits that have content,
\* in order, and the context sent to the completion provider carries the full
\* content of each of them.
C33_DisplayTruncatedContextFull ==
    \A s \in RagCalls :
        /\ procs[s].pc = "returned" =>
              \A i \in 1..Len(procs[s].ret.chunks) :
                  LET c == procs[s].ret.chunks[i].content
                  IN  /\ c.len <= DISPLAY_MAX
                      /\ c.ell => c.len = DISPLAY_MAX
        /\ (procs[s].pc = "llm_wait" \/ procs[s].llm # "none") =>
              LET sel == Readable(procs[s].selected)
                  chunks == procs[s].chunks
                  context == procs[s].context
              IN  /\ Len(chunks) = Len(sel)
                  /\ Len(context) = Len(sel)
                  /\ \A i \in 1..Len(sel) :
                        /\ chunks[i].id = sel[i].id
                        /\ chunks[i].content =
                              IF sel[i].content.len <= DISPLAY_MAX THEN sel[i].content
                              ELSE [name |-> sel[i].content.name, len |-> DISPLAY_MAX,
                                    ell |-> TRUE]
                        /\ context[i].content = sel[i].content
                  /\ procs[s].pc = "returned" => procs[s].ret.chunks = chunks

\* a computed result shows a content of exactly 300 characters in full and one
\* of 301 characters cut, and the context had all 301
C33_Witness ==
    \E s \in RagCalls :
        /\ procs[s].pc = "returned"
        /\ procs[s].llm # "none"
        /\ \E i \in 1..Len(procs[s].ret.chunks) :
              /\ procs[s].ret.chunks[i].content.len = DISPLAY_MAX
              /\ ~procs[s].ret.chunks[i].content.ell
        /\ \E i \in 1..Len(procs[s].ret.chunks) :
              /\ procs[s].ret.chunks[i].content.ell
              /\ procs[s].context[i].content.len = DISPLAY_MAX + 1

----------------------------------------------------------------------------
(* The windows of chunk_text, checked under SpecChunk *)

\* the indexes of the sentence ends among the last LOOKBACK characters of the
\* window of chunk_size characters that starts at start
EndsInLookback(text, chunk_size, start) ==
    {p \in Max(start, start + chunk_size - LOOKBACK)..(start + chunk_size - 1) :
        /\ 0 <= p
        /\ p < Len(text)
        /\ text[p + 1] \in {".", "!", "?"}}

\* the start of the window after window i
StartAfter(i) == IF i < Len(ckSpans) THEN ckSpans[i + 1].start ELSE ckStart

\* C34: every window that is not the last one (start + chunk_size < len(text))
\* ends right after the last '.', '!' or '?' among its last LOOKBACK
\* characters, or at start + chunk_size when there is none, and the next window
\* starts overlap characters before that end.
C34_WindowEndsAtLastSentenceEnd ==
    \A i \in 1..Len(ckSpans) :
        LET start == ckSpans[i].start
            ends == EndsInLookback(ckText, ckSize, start)
        IN  start + ckSize < Len(ckText) =>
               /\ ends # {} =>
                     ckSpans[i].end = 1 + CHOOSE p \in ends : \A q \in ends : q <= p
               /\ ends = {} => ckSpans[i].end = start + ckSize
               /\ StartAfter(i) = ckSpans[i].end - ckOverlap

----------------------------------------------------------------------------
(* Cache hits and cache writes of rag_search, checked under Spec *)

\* the step is the start of a rag_search call in slot s that is served from
\* the cache
HitStep(s) ==
    /\ FirstFree(s)
    /\ ncalls' = ncalls + 1
    /\ procs'[s].op = "rag_search"
    /\ procs'[s].pc = "returned"
    /\ procs'[s].ret.cached

\* C35: a rag_search call that hits the cache returns in the step of its cache
\* read: it has made no store query, no embedding lookup or request and no
\* completion request, and the cache, the chunk index and the documents index
\* are as they were.
C35_CacheHitTouchesNothing ==
    [][\A s \in Slots :
          HitStep(s) =>
             /\ cache' = cache
             /\ index' = index
             /\ docIndex' = docIndex
             /\ procs'[s].storeQuery = "none"
             /\ procs'[s].sent = <<>>
             /\ procs'[s].remote = "none"
             /\ ~procs'[s].embGot
             /\ procs'[s].llm = "none"]_vars

\* a call was served from an entry written TickSeconds before, which has the rest
\* of its TTL
C35_Witness ==
    \E s \in RagCalls :
        LET key == RagKey(procs[s].query, procs[s].k, procs[s].use_embeddings)
        IN  /\ procs[s].pc = "returned"
            /\ procs[s].ret.cached
            /\ procs[s].storeQuery = "none"
            /\ procs[s].use_embeddings
            /\ key \in DOMAIN cache
            /\ cache[key].ttl = RAG_TTL - TickSeconds

\* the step ends a rag_search call in slot s with a computed result
ComputedStep(s) ==
    /\ procs'[s] # procs[s]
    /\ procs'[s].op = "rag_search"
    /\ procs'[s].pc = "returned"
    /\ ~procs'[s].ret.cached

DegradedAnswers == {LLM_STATUS_ANSWER, LLM_ERROR_ANSWER}

\* C36: every step in which rag_search returns a computed result leaves that
\* result in the cache under the key of the call with a TTL of RAG_TTL, also
\* when its answer is a degraded one; a call with the same arguments that
\* starts within RAG_TTL of a degraded result returns it with cached = true and
\* sends no completion request.
C36_DegradedAnswerCached ==
    /\ [][\A s \in Slots :
             ComputedStep(s) =>
                LET key == RagKey(procs'[s].query, procs'[s].k, procs'[s].use_embeddings)
                IN  /\ key \in DOMAIN cache'
                    /\ Loads(cache'[key].val) = procs'[s].ret
                    /\ cache'[key].ttl = RAG_TTL]_vars
    /\ [](\A s \in RagCalls :
             (/\ procs[s].pc = "returned"
              /\ procs[s].prior # None
              /\ procs[s].prior.answer \in DegradedAnswers) =>
                 /\ procs[s].ret.cached
                 /\ procs[s].ret.answer = procs[s].prior.answer
                 /\ procs[s].ret.chunks = procs[s].prior.chunks
                 /\ procs[s].llm = "none")

\* a call has returned from the cache the degraded answer of a call whose
\* completion request failed
C36_Witness ==
    \E s \in RagCalls :
        /\ procs[s].pc = "returned"
        /\ procs[s].ret.cached
        /\ procs[s].ret.answer \in DegradedAnswers
        /\ procs[s].ret.chunks # <<>>
        /\ procs[s].llm = "none"

----------------------------------------------------------------------------
(* rag_search and ingest_documents on one cache *)

RagIngestDocLists == {<<DocShort>>, <<DocPdf>>}

\* the first documents are ingested between the calls of rag_search
IngestBetween(s, documents) ==
    /\ Live
    /\ docIndex = {}
    /\ \A r \in Slots : procs[r].op # "ingest_documents" \/ Free(r)
    /\ IngestBegin(s, documents)
    /\ UNCHANGED ncalls

RagIngestInit == PipeInit /\ SelIdle /\ ChunkIdle

RagIngestNext ==
    \/ \E s \in Slots, query \in RagQueries, k \in KValues, use_embeddings \in BOOLEAN :
          RagStart(s, query, k, use_embeddings)
    \/ \E s \in Slots : RagEmbRespond(s)
    \/ \E s \in Slots : RagLlmRespond(s)
    \/ \E s \in Slots, documents \in RagIngestDocLists : IngestBetween(s, documents)
    \/ \E s \in Slots : IngestRespond(s)
    \/ ToggleCache
    \/ \E d \in TickSteps : Tick(d)

SpecRagIngest == RagIngestInit /\ [][RagIngestNext]_vars


\* the step is a step of a call of ingest_documents
IngestStep == \E s \in Slots : procs'[s] # procs[s] /\ procs'[s].op = "ingest_documents"

\* the cache keys whose entry the step writes, overwrites or deletes
Touched == {key \in DOMAIN cache \cup DOMAIN cache' :
               \/ key \notin DOMAIN cache
               \/ key \notin DOMAIN cache'
               \/ cache'[key] # cache[key]}

\* C37: a step of ingest_documents writes, overwrites or deletes embedding
\* cache entries only, never a rag answer entry; a call of rag_search that
\* starts within RAG_TTL of a computed result for the same arguments returns
\* that result with cached = true, whatever was ingested in between, a
\* "no relevant chunks" result included.
C37_IngestKeepsRagCache ==
    /\ [][IngestStep =>
             /\ Touched \subseteq {EmbKey(t) : t \in IngestTexts}
             /\ Touched \cap RagKeys = {}]_vars
    /\ [](\A s \in RagCalls :
             (procs[s].pc = "returned" /\ procs[s].prior # None) =>
                 /\ procs[s].ret.cached
                 /\ procs[s].ret.answer = procs[s].prior.answer
                 /\ procs[s].ret.chunks = procs[s].prior.chunks
                 /\ procs[s].ret.total_chunks_found = procs[s].prior.total_chunks_found
                 /\ procs[s].ret.search_method = procs[s].prior.search_method)

\* a "no relevant chunks" result was cached, some time passed, documents were
\* ingested and their vectors cached, and an identical request is answered
\* from the cache
C37_Witness ==
    \E s \in RagCalls :
        LET key == RagKey(procs[s].query, procs[s].k, procs[s].use_embeddings)
        IN  /\ procs[s].pc = "returned"
            /\ procs[s].ret.cached
            /\ procs[s].ret.answer = NO_CHUNKS_ANSWER
            /\ key \in DOMAIN cache
            /\ cache[key].ttl < RAG_TTL
            /\ docIndex # {}
            /\ \E t \in IngestTexts \ RagQueries :
                  /\ EmbKey(t) \in DOMAIN cache
                  /\ cache[EmbKey(t)].ttl = _CACHE_TTL


----------------------------------------------------------------------------
(* rag_search when the document store is unreachable, under Spec *)

KeyOf(p) == RagKey(p.query, p.k, p.use_embeddings)

\* the call in slot s has raised because the store was unreachable
StoreRaised(s) ==
    procs[s].op = "rag_search" /\ procs[s].pc = "raised" /\ procs[s].err = "store"

\* the step ends the rag_search call in slot s with the error of the store
StoreRaiseStep(s) ==
    /\ procs'[s] # procs[s]
    /\ procs'[s].op = "rag_search"
    /\ procs'[s].pc = "raised"
    /\ procs'[s].err = "store"

\* the step starts a rag_search call in slot s right after a call with the same
\* arguments raised because of the store, no other call having computed a
\* result for these arguments in the last RAG_TTL seconds
RetryStep(s) ==
    /\ ncalls' = ncalls + 1
    /\ procs'[s].op = "rag_search"
    /\ procs'[s].pc # "idle"
    /\ \E r \in Slots : StoreRaised(r) /\ KeyOf(procs[r]) = KeyOf(procs'[s])
    /\ lastFresh[KeyOf(procs'[s])] = None

\* C38: the step in which rag_search raises because the store is unreachable
\* writes no rag answer entry; the entry a raised call leaves under its key, if
\* any, is the result another call computed; the next call with the same
\* arguments finds no entry: it is not answered from the cache, and it queries
\* the store, or waits for the vector of the query before it does, or raises
\* because the store or the cache is unreachable.
C38_StoreFailureCachesNothing ==
    /\ [][\A s \in Slots :
             StoreRaiseStep(s) =>
                \A key \in RagKeys :
                    /\ key \in DOMAIN cache' <=> key \in DOMAIN cache
                    /\ key \in DOMAIN cache => cache'[key] = cache[key]]_vars
    /\ [](\A s \in Slots :
             StoreRaised(s) /\ KeyOf(procs[s]) \in DOMAIN cache =>
                lastFresh[KeyOf(procs[s])] # None)
    /\ [][\A s \in Slots :
             RetryStep(s) =>
                /\ procs'[s].prior = None
                /\ KeyOf(procs'[s]) \notin DOMAIN cache
                /\ procs'[s].pc = "returned" =>
                      /\ ~procs'[s].ret.cached
                      /\ procs'[s].storeQuery \in {"lexical", "hybrid"}
                /\ procs'[s].pc = "raised" => procs'[s].err \in {"store", "cache"}
                /\ procs'[s].pc \in {"returned", "raised", "emb_wait", "llm_wait"}
                /\ procs'[s].pc = "llm_wait" =>
                      procs'[s].storeQuery \in {"lexical", "hybrid"}]_vars

\* a call raised because the store was unreachable after it had cached the
\* vector of its query; the store is back, no entry is under the key of the
\* call, and a further call can start
C38_Witness ==
    \E s \in Slots :
        /\ StoreRaised(s)
        /\ procs[s].remote = "data"
        /\ EmbKey(procs[s].query) \in DOMAIN cache
        /\ KeyOf(procs[s]) \notin DOMAIN cache
        /\ storeUp /\ cacheUp
        /\ ncalls < MaxCalls


----------------------------------------------------------------------------
(* chunk_text with the default parameters of ingest_documents *)

\* lengths just above chunk_size, and such that the second window reaches the
\* end of the text with less than overlap characters to spare
EdgeLens == {CHUNK_SIZE + 1, 2 * CHUNK_SIZE - OVERLAP - 1}

EdgeTexts == {MkText(n, ends, {}) : n \in EdgeLens, ends \in EndSets}

DefaultInputs == (LongTexts \cup EdgeTexts) \X {CHUNK_SIZE} \X {OVERLAP}

ChunkNextDefault ==
    \/ \E in \in DefaultInputs : ChunkCall(in[1], in[2], in[3])
    \/ ChunkEnter
    \/ ChunkIterate

\* ENABLED <<ChunkIterate>>_vars: an iteration adds ckStart to ckSeen, so it
\* changes the state whenever its guard holds
IterateEnabled == ckPc = "loop" /\ ckStart \notin ckSeen /\ Cardinality(ckSeen) < MaxIter

\* a call that has entered runs whenever it can: WF_vars(ChunkEnter) and
\* WF_vars(ChunkIterate), the latter written out with IterateEnabled
SpecChunkDefault ==
    /\ ChunkInit
    /\ [][ChunkNextDefault]_vars
    /\ WF_vars(ChunkEnter)
    /\ (<>[]IterateEnabled => []<><<ChunkIterate>>_vars)

\* C39: with chunk_size = 512 and overlap = 50 every call of chunk_text returns,
\* and every iteration of its loop moves the window start forward, also when
\* the window was cut at a sentence end.
C39_DefaultsTerminate ==
    /\ (ckPc = "entry") ~> (ckPc = "done")
    /\ [][ckPc = "loop" => ckStart' > ckStart]_vars

\* a call with the default parameters has returned after a window that was cut
\* at the earliest sentence end the loop looks for
C39_Witness ==
    /\ ckPc = "done"
    /\ ckSize = CHUNK_SIZE
    /\ ckOverlap = OVERLAP
    /\ \E i \in 1..Len(ckSpans) :
          ckSpans[i].end = ckSpans[i].start + CHUNK_SIZE - LOOKBACK + 1


\* the chunk of the i-th window, and whether it was appended
ChunkOfWindow(i) == strip(Slice(ckText, ckSpans[i].start, ckSpans[i].end))
Appended(i) == ChunkOfWindow(i) # <<>>

\* C40: with chunk_size = 512 and overlap = 50, the span of every chunk after
\* the first contains an index of the text that the span of no earlier chunk
\* contains.
C40_EveryChunkAddsAnIndex ==
    (ckSize = CHUNK_SIZE /\ ckOverlap = OVERLAP) =>
        \A i \in 2..Len(ckSpans) :
            Appended(i) =>
                \E p \in 0..(Len(ckText) - 1) :
                    /\ InSpan(ckText, ckSpans[i], p)
                    /\ \A j \in 1..(i - 1) :
                          Appended(j) => ~InSpan(ckText, ckSpans[j], p)

====
